---- MODULE Spec2Model ----
(***************************************************************************)
(* Verification model of vampyr (offline forensic analyzer for Ceph        *)
(* BlueStore images).                                                      *)
(*                                                                         *)
(* Part 1: BlueFS construction (vampyr/bluefs.py): superblock, replay of   *)
(*         the transaction log, validation of the extent locations.        *)
(* Part 2: extraction of a BlueFS file (BlueFSFile.mkfile).                *)
(* Part 3: extraction of one object (KVONode.extract, vampyr/kv.py).       *)
(* Part 4: the loop over the objects (PrefixHandlerO.decode_object_data).  *)
(* Part 5: the operations of BlueFS applied as method calls.               *)
(* Part 6: the extent map of an onode (KVExtentMap).                       *)
(* Part 7: the loader of the dump of the KV store (RDBKV.datasets).        *)
(* Part 8: the OSD object, its image handle and the ByteHandler.           *)
(* Part 9: primitive decoders reading from a ByteHandler.                  *)
(* Part 10: the scan action of main (vampyr.py).                           *)
(* Part 11: the physical extents and the allocated and unallocated areas   *)
(*          (CephPExtent, vampyr/kv.py).                                   *)
(* Part 12: the rows of prefix O loaded into the onode map                 *)
(*          (RDBKV._load, PrefixHandlerO.parse_dataset).                   *)
(*                                                                         *)
(* Each part has its own specification; the variables of the other parts   *)
(* stay at their idle values.                                              *)
(***************************************************************************)
EXTENDS Integers, Sequences, FiniteSets, TLC

(***************************************************************************)
(* Bounds of the model.                                                    *)
(***************************************************************************)
\* block_size of the superblock, in bytes
BlockSize == 2
\* number of block_size blocks of the image that extents may start at; an
\* extent is one block or that many blocks long
NumBlocks == 2
\* inode numbers 1..MaxIno (1 is the log file)
MaxIno == 2
\* most operations the whole log of the image holds
MaxLogOps == 3

(***************************************************************************)
(* Input domains drawn from the image.                                     *)
(***************************************************************************)
Inos == 1..MaxIno
Offsets == {k * BlockSize : k \in 0..(NumBlocks - 1)}
Lengths == {BlockSize, NumBlocks * BlockSize}
\* BlueFSExtent: offset and length (bdev is never used by the analyzer)
Extents == [offset : Offsets, length : Lengths]
\* the extent lists an FNode of the image may carry
ExtentLists == {<<e>> : e \in Extents}
Dirnames == {"db"}
Filenames == {"f", "g"}
AllocIds == {1}
\* allocator regions an ALLOC_ADD of the image may declare
Regions == {<<0, BlockSize>>, <<0, NumBlocks * BlockSize>>}
JumpOffsets == {2 * BlockSize}
FileSizes == {1}

VARIABLES
    \* BlueFS object fields
    initialized, allocated_areas, allocated_ino, deallocated_ino, dirlist,
    allocated_extents, deallocated_extents, ino_to_file_map,
    transactions, skipped_transactions, next_offset,
    \* locals of BlueFS.__init__ and read_bluefs_extents
    extents, oldextents, logical_offset, ei, block,
    \* position of the constructor, skip flag of the transaction being
    \* decoded, number of operations decoded from the log so far
    pc, skip, nops,
    \* every region an applied ALLOC_ADD has declared so far, the offset of
    \* every extent an applied FILE_UPDATE has carried so far
    declared, updated,
    \* BlueFSFile.mkfile: the file (self.size, self.extents), the loop index,
    \* bsize, the three files written, the running digest, the position
    f_size, f_extents, f_i, bsize, f_body, f_slack, f_md5sum, f_md5, mpc,
    \* KVONode.extract: the onode (self.size, self.lextents), the loop
    \* index, the object file and its position, the slack file, the
    \* running digest, the digest file, the position
    o_size, lextents, le_i, w_file, w_pos, s_file, md5sum, m_file, xpc,
    \* the number of rows (the onode row, then its shard rows) whose extent
    \* map has been decoded into the onode
    rows,
    \* PrefixHandlerO.decode_object_data: the objects in key order, the
    \* loop index, the objects the loop has reached, the position
    onode_map, key_i, handled, opc,
    \* RDBKV: the lines of the dump read so far and self._datasets
    dump, datasets,
    \* OSD: the image file handle (self.rb), self.extract_dir, whether the
    \* temporary directory exists on disk, the position of the handle, the
    \* last value returned by OSD.read and the position in the life of the
    \* OSD object
    rb, extract_dir, tmpdir, rb_pos, osd_read, dpc,
    \* ByteHandler: self.mybytes, self._p and the outcome of the last read
    mybytes, bh_p, bh_read,
    \* the object a primitive decoder has built from the ByteHandler
    decoded,
    \* scan mode: osdlength of the label, the window counter, the window
    \* offsets at which the decoders were tried and the structures found
    osdlength, s_block, attempted, structures,
    \* CephPExtent: the class attributes pextentlist, alloc and unalloc, the
    \* files written by extract_unallocated and the position of the caller
    pextentlist, pe_alloc, pe_unalloc, files, apc,
    \* RDBKV._load(PrefixHandlerO): datasets['O'] (row key -> value), the
    \* number of rows handled and the position of the loop; the onodes
    \* parse_dataset has built (by the object key of their row) and the
    \* handler's onode_map, poolids and oid_map
    o_datasets, d_i, lpc, onodes, h_onode_map, poolids, oid_map

fsvars == <<initialized, allocated_areas, allocated_ino, deallocated_ino,
            dirlist, allocated_extents, deallocated_extents, ino_to_file_map,
            next_offset>>
loopvars == <<extents, oldextents, logical_offset, ei, block>>
bvars == <<initialized, allocated_areas, allocated_ino, deallocated_ino,
           dirlist, allocated_extents, deallocated_extents, ino_to_file_map,
           transactions, skipped_transactions, next_offset,
           extents, oldextents, logical_offset, ei, block, pc, skip, nops,
           declared, updated>>

mvars == <<f_size, f_extents, f_i, bsize, f_body, f_slack, f_md5sum, f_md5,
           mpc>>
xvars == <<o_size, lextents, le_i, w_file, w_pos, s_file, md5sum, m_file,
           xpc, rows>>
ovars == <<onode_map, key_i, handled, opc>>

kvars == <<dump, datasets>>
dvars == <<rb, extract_dir, tmpdir, rb_pos, osd_read, dpc, mybytes, bh_p,
           bh_read>>

svars == <<osdlength, s_block, attempted, structures>>
\* the variables of the parts after part 9
avars == <<pextentlist, pe_alloc, pe_unalloc, files, apc>>
hvars == <<o_datasets, d_i, lpc, onodes, h_onode_map, poolids, oid_map>>
qvars == <<svars, avars, hvars>>
pvars == <<decoded, qvars>>

vars == <<bvars, mvars, xvars, ovars, kvars, dvars, pvars>>

(***************************************************************************)
(* Python list and dict helpers.                                           *)
(***************************************************************************)
RECURSIVE RemoveFirst(_, _)
\* list.remove(x) for a list of integers: drops the first occurrence
RemoveFirst(s, x) ==
    IF s = <<>> THEN <<>>
    ELSE IF Head(s) = x THEN Tail(s)
    ELSE <<Head(s)>> \o RemoveFirst(Tail(s), x)

InList(x, s) == \E i \in 1..Len(s) : s[i] = x

\* BlueFSExtent.__eq__: two extents are equal when their offsets are
ExtentEq(a, b) == a.offset = b.offset

\* "e in list" for a list of BlueFSExtent
ExtentIn(e, s) == \E i \in 1..Len(s) : ExtentEq(s[i], e)

RECURSIVE ExtentRemove(_, _)
\* list.remove(e) for a list of BlueFSExtent
ExtentRemove(s, e) ==
    IF s = <<>> THEN <<>>
    ELSE IF ExtentEq(Head(s), e) THEN Tail(s)
    ELSE <<Head(s)>> \o ExtentRemove(Tail(s), e)

\* the blocks an extent covers when it is replayed
BlocksOf(e) == {e.offset + k * BlockSize :
                   k \in {j \in 0..NumBlocks : j * BlockSize < e.length}}

BlocksOfList(s) == UNION {BlocksOf(s[i]) : i \in 1..Len(s)}


(***************************************************************************)
(* The BlueFS object as one record, and the three ways a step of the       *)
(* decoder ends: normally, by an exception the replay loop catches         *)
(* (VampyrMagicException, AssertionError), or by any other exception.      *)
(***************************************************************************)
CurFs == [initialized |-> initialized,
          allocated_areas |-> allocated_areas,
          allocated_ino |-> allocated_ino,
          deallocated_ino |-> deallocated_ino,
          dirlist |-> dirlist,
          allocated_extents |-> allocated_extents,
          deallocated_extents |-> deallocated_extents,
          ino_to_file_map |-> ino_to_file_map,
          next_offset |-> next_offset]

Returns(fs) == [fs |-> fs, st |-> "ok"]
RaisesCaught(fs) == [fs |-> fs, st |-> "caught"]
RaisesOther(fs) == [fs |-> fs, st |-> "uncaught"]

\* BlueFSFile(ino, size, mtime, extents)
BlueFSFile(size, exts) == [size |-> size, extents |-> exts]

\* BlueFSDir(dirname): a name and an insertion-ordered dict ino -> filename
BlueFSDir(dirname) == [dirname |-> dirname, ino_to_file_map |-> <<>>]

\* "dirname in self.dirlist": a str is compared with BlueFSDir objects, which
\* define no __eq__, so the comparison falls back to identity and is False
StrEqDir(dirname, bfsdir) == FALSE

DirnameInDirlist(dirname, dl) ==
    \E i \in 1..Len(dl) : StrEqDir(dirname, dl[i])

\* BlueFSDir.link: self.ino_to_file_map[ino] = filename
link(bfsdir, filename, ino) ==
    LET m == bfsdir.ino_to_file_map IN
    IF \E i \in 1..Len(m) : m[i].ino = ino
    THEN [bfsdir EXCEPT !.ino_to_file_map =
             [i \in 1..Len(m) |->
                 IF m[i].ino = ino THEN [ino |-> ino, filename |-> filename]
                 ELSE m[i]]]
    ELSE [bfsdir EXCEPT !.ino_to_file_map =
             Append(m, [ino |-> ino, filename |-> filename])]

\* BlueFSDir.unlink: drops the first ino linked to filename, then asserts
\* that no ino is linked to filename any more
unlink(bfsdir, filename) ==
    LET m == bfsdir.ino_to_file_map
        hits == {i \in 1..Len(m) : m[i].filename = filename}
        first == CHOOSE i \in hits : \A j \in hits : i <= j
        m2 == IF hits = {} THEN m
              ELSE SubSeq(m, 1, first - 1) \o SubSeq(m, first + 1, Len(m))
        d2 == [bfsdir EXCEPT !.ino_to_file_map = m2]
    IN  [dir |-> d2,
         ok |-> ~ \E i \in 1..Len(m2) : m2[i].filename = filename]

op_init(fs) == Returns([fs EXCEPT !.initialized = TRUE])

\* op_alloc_add without assert(self.initialized)
op_alloc_add_unasserted(fs, id, offset, length) ==
    Returns([fs EXCEPT !.allocated_areas =
        [i \in DOMAIN fs.allocated_areas \cup {id} |->
            IF i = id THEN <<offset, length>>
            ELSE fs.allocated_areas[i]]])

op_alloc_add(fs, id, offset, length) ==
    IF ~fs.initialized THEN RaisesCaught(fs)
    ELSE Returns([fs EXCEPT !.allocated_areas =
            [i \in DOMAIN fs.allocated_areas \cup {id} |->
                IF i = id THEN <<offset, length>>
                ELSE fs.allocated_areas[i]]])

op_alloc_rm(fs) ==
    IF ~fs.initialized THEN RaisesCaught(fs) ELSE RaisesOther(fs)

op_dir_create(fs, dirname) ==
    IF ~fs.initialized THEN RaisesCaught(fs)
    ELSE IF ~DirnameInDirlist(dirname, fs.dirlist)
         THEN Returns([fs EXCEPT !.dirlist = Append(@, BlueFSDir(dirname))])
         ELSE Returns(fs)

op_dir_remove(fs) ==
    IF ~fs.initialized THEN RaisesCaught(fs) ELSE RaisesOther(fs)

op_dir_link(fs, dirname, filename, ino) ==
    IF ~fs.initialized THEN RaisesCaught(fs)
    ELSE Returns([fs EXCEPT !.dirlist =
            [i \in 1..Len(fs.dirlist) |->
                IF fs.dirlist[i].dirname = dirname
                THEN link(fs.dirlist[i], filename, ino)
                ELSE fs.dirlist[i]]])

RECURSIVE UnlinkFrom(_, _, _, _)
\* the loop of op_dir_unlink from directory i on; stops at the first
\* directory whose unlink raises
UnlinkFrom(dl, i, dirname, filename) ==
    IF i > Len(dl) THEN [dirlist |-> dl, ok |-> TRUE]
    ELSE IF dl[i].dirname # dirname
         THEN UnlinkFrom(dl, i + 1, dirname, filename)
         ELSE LET r == unlink(dl[i], filename)
                  dl2 == [dl EXCEPT ![i] = r.dir]
              IN  IF r.ok THEN UnlinkFrom(dl2, i + 1, dirname, filename)
                  ELSE [dirlist |-> dl2, ok |-> FALSE]

op_dir_unlink(fs, dirname, filename) ==
    IF ~fs.initialized THEN RaisesCaught(fs)
    ELSE LET r == UnlinkFrom(fs.dirlist, 1, dirname, filename)
             fs2 == [fs EXCEPT !.dirlist = r.dirlist]
         IN  IF r.ok THEN Returns(fs2) ELSE RaisesCaught(fs2)

RECURSIVE UpdateExtents(_, _, _)
\* the loop over the extents of op_file_update; returns the two lists
UpdateExtents(exts, alloc, dealloc) ==
    IF exts = <<>> THEN [alloc |-> alloc, dealloc |-> dealloc]
    ELSE LET e == Head(exts)
             a2 == IF ~ExtentIn(e, alloc) THEN Append(alloc, e) ELSE alloc
             d2 == IF ExtentIn(e, dealloc) THEN ExtentRemove(dealloc, e)
                   ELSE dealloc
         IN  UpdateExtents(Tail(exts), a2, d2)

\* BlueFSFile.update replaces size, mtime and extents of the file
update(file, size, exts) == [file EXCEPT !.size = size, !.extents = exts]

op_file_update(fs, ino, size, exts) ==
    IF ~fs.initialized THEN RaisesCaught(fs)
    ELSE LET ai == IF ~InList(ino, fs.allocated_ino)
                   THEN Append(fs.allocated_ino, ino)
                   ELSE fs.allocated_ino
             di == IF InList(ino, fs.deallocated_ino)
                   THEN RemoveFirst(fs.deallocated_ino, ino)
                   ELSE fs.deallocated_ino
             x == UpdateExtents(exts, fs.allocated_extents,
                                fs.deallocated_extents)
             m == fs.ino_to_file_map
             m2 == [i \in DOMAIN m \cup {ino} |->
                      IF i = ino
                      THEN IF ino \notin DOMAIN m THEN BlueFSFile(size, exts)
                           ELSE update(m[ino], size, exts)
                      ELSE m[i]]
         IN  Returns([fs EXCEPT !.allocated_ino = ai,
                                !.deallocated_ino = di,
                                !.allocated_extents = x.alloc,
                                !.deallocated_extents = x.dealloc,
                                !.ino_to_file_map = m2])

RECURSIVE RemoveExtentsKeepAllocated(_, _, _)
\* the loop of op_file_remove without the removal from allocated_extents
RemoveExtentsKeepAllocated(exts, alloc, dealloc) ==
    IF exts = <<>> THEN [alloc |-> alloc, dealloc |-> dealloc]
    ELSE LET e == Head(exts)
             d2 == IF ~ExtentIn(e, dealloc) THEN Append(dealloc, e)
                   ELSE dealloc
         IN  RemoveExtentsKeepAllocated(Tail(exts), alloc, d2)

RECURSIVE RemoveExtents(_, _, _)
\* the loop over the extents of the removed file in op_file_remove
RemoveExtents(exts, alloc, dealloc) ==
    IF exts = <<>> THEN [alloc |-> alloc, dealloc |-> dealloc]
    ELSE LET e == Head(exts)
             a2 == IF ExtentIn(e, alloc) THEN ExtentRemove(alloc, e)
                   ELSE alloc
             d2 == IF ~ExtentIn(e, dealloc) THEN Append(dealloc, e)
                   ELSE dealloc
         IN  RemoveExtents(Tail(exts), a2, d2)

op_file_remove(fs, ino) ==
    IF ~fs.initialized THEN RaisesCaught(fs)
    ELSE LET ai == IF InList(ino, fs.allocated_ino)
                   THEN RemoveFirst(fs.allocated_ino, ino)
                   ELSE fs.allocated_ino
             di == IF ~InList(ino, fs.deallocated_ino)
                   THEN Append(fs.deallocated_ino, ino)
                   ELSE fs.deallocated_ino
             fs2 == [fs EXCEPT !.allocated_ino = ai, !.deallocated_ino = di]
             m == fs.ino_to_file_map
         IN  IF ino \notin DOMAIN m THEN RaisesCaught(fs2)
             ELSE LET x == RemoveExtents(m[ino].extents,
                                         fs.allocated_extents,
                                         fs.deallocated_extents)
                  IN  Returns([fs2 EXCEPT
                         !.ino_to_file_map =
                             [i \in DOMAIN m \ {ino} |-> m[i]],
                         !.allocated_extents = x.alloc,
                         !.deallocated_extents = x.dealloc])

\* a jump that replaces the offset still standing
op_jump_always(fs, offset) ==
    IF ~fs.initialized THEN RaisesCaught(fs)
    ELSE Returns([fs EXCEPT !.next_offset = offset])

op_jump(fs, offset) ==
    IF ~fs.initialized THEN RaisesCaught(fs)
    ELSE IF fs.next_offset = 0
         THEN Returns([fs EXCEPT !.next_offset = offset])
         ELSE Returns(fs)

op_jump_seq(fs) ==
    IF ~fs.initialized THEN RaisesCaught(fs) ELSE RaisesOther(fs)


(***************************************************************************)
(* The operations a transaction of the image may hold.  BAD_STRING is an   *)
(* operation 4..7 whose string bytes are not valid UTF-8.                  *)
(***************************************************************************)
Operations ==
    {[op |-> "NONE"], [op |-> "INIT"], [op |-> "ALLOC_RM"],
     [op |-> "DIR_REMOVE"], [op |-> "JUMP_SEQ"], [op |-> "BAD_STRING"]}
    \cup {[op |-> "ALLOC_ADD", id |-> i, offset |-> r[1], length |-> r[2]] :
             i \in AllocIds, r \in Regions}
    \cup {[op |-> "DIR_LINK", dir |-> d, file |-> f, ino |-> i] :
             d \in Dirnames, f \in Filenames, i \in Inos}
    \cup {[op |-> "DIR_UNLINK", dir |-> d, file |-> f] :
             d \in Dirnames, f \in Filenames}
    \cup {[op |-> "DIR_CREATE", dir |-> d] : d \in Dirnames}
    \cup {[op |-> "FILE_UPDATE", ino |-> i, size |-> s, extents |-> x] :
             i \in Inos, s \in FileSizes, x \in ExtentLists}
    \cup {[op |-> "FILE_REMOVE", ino |-> i] : i \in Inos}
    \cup {[op |-> "JUMP", offset |-> j] : j \in JumpOffsets}

\* BlueFSOperation.__init__: decode one operation and apply it to bluefs
BlueFSOperation(fs, o) ==
    CASE o.op = "NONE" -> Returns(fs)
      [] o.op = "INIT" -> op_init(fs)
      [] o.op = "ALLOC_ADD" -> op_alloc_add(fs, o.id, o.offset, o.length)
      [] o.op = "ALLOC_RM" -> op_alloc_rm(fs)
      [] o.op = "DIR_LINK" -> op_dir_link(fs, o.dir, o.file, o.ino)
      [] o.op = "DIR_UNLINK" -> op_dir_unlink(fs, o.dir, o.file)
      [] o.op = "DIR_CREATE" -> op_dir_create(fs, o.dir)
      [] o.op = "DIR_REMOVE" -> op_dir_remove(fs)
      [] o.op = "FILE_UPDATE" -> op_file_update(fs, o.ino, o.size, o.extents)
      [] o.op = "FILE_REMOVE" -> op_file_remove(fs, o.ino)
      [] o.op = "JUMP" -> op_jump(fs, o.offset)
      [] o.op = "JUMP_SEQ" -> op_jump_seq(fs)
      [] o.op = "BAD_STRING" -> RaisesOther(fs)

\* The image is read-only: a block read twice decodes to the same record.
\* The model chooses the content of a block when the block is decoded, so it
\* covers the images whose log extents never make a block be decoded twice:
\* an extent the log file gains either has the offset of an extent replayed
\* before (and is not replayed) or covers only blocks not replayed so far.
NoReread(o) ==
    (o.op = "FILE_UPDATE" /\ o.ino = 1) =>
        \A i \in 1..Len(o.extents) :
            \/ ExtentIn(o.extents[i], oldextents)
            \/ BlocksOf(o.extents[i]) \cap BlocksOfList(oldextents) = {}

SetFs(fs) ==
    /\ initialized' = fs.initialized
    /\ allocated_areas' = fs.allocated_areas
    /\ allocated_ino' = fs.allocated_ino
    /\ deallocated_ino' = fs.deallocated_ino
    /\ dirlist' = fs.dirlist
    /\ allocated_extents' = fs.allocated_extents
    /\ deallocated_extents' = fs.deallocated_extents
    /\ ino_to_file_map' = fs.ino_to_file_map
    /\ next_offset' = fs.next_offset

\* the block is finished (decoded, or given up on a caught exception):
\* block += 1; logical_offset += self.blocksize
BlockDone ==
    /\ pc' = "block"
    /\ block' = block + 1
    /\ logical_offset' = logical_offset + BlockSize
    /\ skip' = FALSE
    /\ UNCHANGED <<extents, oldextents, ei>>

\* the record of the operations applied so far
History(o, r) ==
    /\ declared' = IF o.op = "ALLOC_ADD" /\ r.st = "ok"
                   THEN declared \cup {<<o.offset, o.length>>}
                   ELSE declared
    /\ updated' = IF o.op = "FILE_UPDATE" /\ r.st = "ok"
                  THEN updated \cup {o.extents[i].offset :
                                        i \in 1..Len(o.extents)}
                  ELSE updated

\* what the checks before the transaction of a block can find
HeaderOutcomes == {"ok", "magic", "assert"}
\* what the checks after the last operation of a transaction can find
TailOutcomes == {"ok", "assert"}

(***************************************************************************)
(* BlueFS.__init__ up to the replay loop: the superblock gives the log     *)
(* file (ino 1) and its extents.                                           *)
(***************************************************************************)
InitBlueFS ==
    /\ initialized = FALSE
    /\ allocated_areas = <<>>
    /\ allocated_ino = <<>>
    /\ deallocated_ino = <<>>
    /\ dirlist = <<>>
    /\ allocated_extents = <<>>
    /\ deallocated_extents = <<>>
    /\ transactions = {}
    /\ skipped_transactions = {}
    /\ next_offset = 0
    /\ extents \in ExtentLists
    /\ ino_to_file_map \in
           {[i \in {1} |-> BlueFSFile(s, extents)] : s \in FileSizes}
    /\ oldextents = extents
    /\ logical_offset = 0
    /\ ei = 1
    /\ block = 0
    /\ pc = "block"
    /\ skip = FALSE
    /\ nops = 0
    /\ declared = {}
    /\ updated = {}

\* one pass of the while loop of read_bluefs_extents up to the transaction
\* of the block: decide whether the block is skipped, check the header
BeginBlock ==
    /\ pc = "block"
    /\ ei <= Len(extents)
    /\ block * BlockSize < extents[ei].length
    /\ next_offset' = IF next_offset > logical_offset THEN next_offset ELSE 0
    /\ \E hdr \in HeaderOutcomes :
          IF hdr = "ok"
          THEN /\ pc' = "ops"
               /\ skip' = (next_offset > logical_offset)
               /\ UNCHANGED <<loopvars>>
          ELSE BlockDone
    /\ UNCHANGED <<initialized, allocated_areas, allocated_ino,
                   deallocated_ino, dirlist, allocated_extents,
                   deallocated_extents, ino_to_file_map, transactions,
                   skipped_transactions, nops, declared, updated>>
    /\ UNCHANGED <<mvars, xvars, ovars, kvars, dvars, pvars>>

\* one pass of the while loop of BlueFSTransaction.__init__, for any
\* operation the bytes at the position may decode to
DecodeAnyOperation(o) ==
    /\ pc = "ops"
    /\ nops < MaxLogOps
    /\ nops' = nops + 1
    /\ LET r == BlueFSOperation(CurFs, o) IN
          /\ SetFs(r.fs)
          /\ History(o, r)
          /\ CASE r.st = "ok" ->
                    /\ pc' = "ops"
                    /\ UNCHANGED <<loopvars, skip>>
               [] r.st = "caught" -> BlockDone
               [] r.st = "uncaught" ->
                    /\ pc' = "aborted"
                    /\ UNCHANGED <<loopvars, skip>>
    /\ UNCHANGED <<transactions, skipped_transactions>>
    /\ UNCHANGED <<mvars, xvars, ovars, kvars, dvars, pvars>>

\* one pass of the while loop of BlueFSTransaction.__init__ on an image
\* whose blocks are decoded once
DecodeOperation(o) ==
    /\ NoReread(o)
    /\ DecodeAnyOperation(o)

\* the end of read_bluefs_transaction: length, crc and end-offset checks,
\* then the record is filed
EndTransaction ==
    /\ pc = "ops"
    /\ \E tail \in TailOutcomes :
          LET thisoff == extents[ei].offset + block * BlockSize IN
          IF tail = "ok"
          THEN IF skip
               THEN /\ skipped_transactions' =
                           skipped_transactions \cup {thisoff}
                    /\ UNCHANGED transactions
               ELSE /\ transactions' = transactions \cup {thisoff}
                    /\ UNCHANGED skipped_transactions
          ELSE UNCHANGED <<transactions, skipped_transactions>>
    /\ BlockDone
    /\ UNCHANGED <<fsvars, nops, declared, updated>>
    /\ UNCHANGED <<mvars, xvars, ovars, kvars, dvars, pvars>>

\* the for loop of read_bluefs_extents moves to the next extent
NextExtent ==
    /\ pc = "block"
    /\ ei <= Len(extents)
    /\ ~(block * BlockSize < extents[ei].length)
    /\ ei' = ei + 1
    /\ block' = 0
    /\ UNCHANGED <<fsvars, transactions, skipped_transactions, extents,
                   oldextents, logical_offset, pc, skip, nops, declared, updated>>
    /\ UNCHANGED <<mvars, xvars, ovars, kvars, dvars, pvars>>

\* the extents of the log file taken again, without the filter
NewExtentsUnfiltered(newextents, old) ==
    newextents

\* [x for x in newextents if x not in oldextents]
NewExtents(newextents, old) ==
    SelectSeq(newextents, LAMBDA x : ~ExtentIn(x, old))

\* the end of one pass of the while loop of BlueFS.__init__
EndRound ==
    /\ pc = "block"
    /\ ei > Len(extents)
    /\ IF 1 \notin DOMAIN ino_to_file_map
       THEN /\ pc' = "aborted"
            /\ UNCHANGED <<extents, oldextents, ei>>
       ELSE LET x == NewExtents(ino_to_file_map[1].extents, oldextents) IN
            /\ extents' = x
            /\ oldextents' = IF Len(x) > 0 THEN oldextents \o x ELSE oldextents
            /\ ei' = 1
            /\ pc' = IF Len(x) > 0 THEN "block" ELSE "validate"
    /\ block' = 0
    /\ UNCHANGED <<fsvars, transactions, skipped_transactions,
                   logical_offset, skip, nops, declared, updated>>
    /\ UNCHANGED <<mvars, xvars, ovars, kvars, dvars, pvars>>

\* the check of the start of the extent alone
ExtentInsideNoEnd(e, a) ==
    e.offset >= a[1]

\* one extent lies inside one allocator region
ExtentInside(e, a) ==
    e.offset >= a[1] /\ e.offset + e.length <= a[1] + a[2]

_validate_extent_location(alloc, areas) ==
    \A i \in 1..Len(alloc) :
        \E id \in DOMAIN areas : ExtentInside(alloc[i], areas[id])

\* assert(self._validate_extent_location())
Validate ==
    /\ pc = "validate"
    /\ pc' = IF _validate_extent_location(allocated_extents, allocated_areas)
             THEN "done" ELSE "failed"
    /\ UNCHANGED <<fsvars, transactions, skipped_transactions, loopvars,
                   skip, nops, declared, updated>>
    /\ UNCHANGED <<mvars, xvars, ovars, kvars, dvars, pvars>>

\* the operation kinds of the families of logs that are replayed
FileOpKinds == {"INIT", "ALLOC_ADD", "FILE_UPDATE", "FILE_REMOVE"}
LogOpKinds == {"INIT", "ALLOC_ADD", "FILE_UPDATE", "FILE_REMOVE"}
DirOpKinds == {"INIT", "DIR_CREATE", "DIR_LINK", "DIR_UNLINK",
               "FILE_UPDATE", "FILE_REMOVE"}
ControlOpKinds == {"NONE", "INIT", "JUMP", "DIR_CREATE", "ALLOC_RM",
                   "DIR_REMOVE", "JUMP_SEQ", "BAD_STRING"}

\* operations on the allocator and on the files other than the log file
FileOps == {o \in Operations : o.op \in FileOpKinds /\
               (o.op = "FILE_UPDATE" => o.ino # 1)}
\* operations on the allocator and on the log file
LogOps == {o \in Operations : o.op \in LogOpKinds /\
              (o.op \in {"FILE_UPDATE", "FILE_REMOVE"} => o.ino = 1)}
DirOps == {o \in Operations : o.op \in DirOpKinds /\
              (o.op = "FILE_UPDATE" => o.ino # 1)}
ControlOps == {o \in Operations : o.op \in ControlOpKinds}

\* one operation of every kind
EveryKindOps ==
    {o \in Operations :
        /\ o.op \in {"DIR_LINK", "FILE_UPDATE", "FILE_REMOVE"}
               => o.ino = MaxIno
        /\ o.op \in {"DIR_LINK", "DIR_UNLINK"} => o.file = "f"
        /\ o.op = "FILE_UPDATE"
               => o.extents = <<[offset |-> 0, length |-> BlockSize]>>
        /\ o.op = "ALLOC_ADD" => o.length = BlockSize}

\* replay of a log of allocator and file operations
NextFiles ==
    \/ BeginBlock
    \/ \E o \in FileOps : DecodeOperation(o)
    \/ EndTransaction
    \/ NextExtent
    \/ EndRound
    \/ Validate

\* replay of a log that changes the log file itself
NextLog ==
    \/ BeginBlock
    \/ \E o \in LogOps : DecodeOperation(o)
    \/ EndTransaction
    \/ NextExtent
    \/ EndRound
    \/ Validate

\* replay of a log of directory and file operations
NextDirs ==
    \/ BeginBlock
    \/ \E o \in DirOps : DecodeOperation(o)
    \/ EndTransaction
    \/ NextExtent
    \/ EndRound
    \/ Validate

\* replay of a log that changes the log file itself, the new extents of
\* the log file lying anywhere: a block that is replayed again may decode
\* to anything, the record it held before included
NextLogAnywhere ==
    \/ BeginBlock
    \/ \E o \in LogOps : DecodeAnyOperation(o)
    \/ EndTransaction
    \/ NextExtent
    \/ EndRound
    \/ Validate

\* replay of a log of jumps and of operations the analyzer refuses
NextControl ==
    \/ BeginBlock
    \/ \E o \in ControlOps : DecodeOperation(o)
    \/ EndTransaction
    \/ NextExtent
    \/ EndRound
    \/ Validate

\* replay of a log that holds operations of every kind
NextEveryKind ==
    \/ BeginBlock
    \/ \E o \in EveryKindOps : DecodeOperation(o)
    \/ EndTransaction
    \/ NextExtent
    \/ EndRound
    \/ Validate

\* replay of a log of two extents that holds jumps
JumpTargets == {BlockSize, 2 * BlockSize}
JumpOps ==
    {[op |-> "INIT"]} \cup {[op |-> "JUMP", offset |-> j] : j \in JumpTargets}
JumpLogs ==
    {<<a, b>> : a \in Extents, b \in {x \in Extents : x.offset > 0}}

\* BlueFS.__init__ up to the replay loop, the log file of the superblock
\* having two extents
InitJumpLog ==
    /\ initialized = FALSE
    /\ allocated_areas = <<>>
    /\ allocated_ino = <<>>
    /\ deallocated_ino = <<>>
    /\ dirlist = <<>>
    /\ allocated_extents = <<>>
    /\ deallocated_extents = <<>>
    /\ transactions = {}
    /\ skipped_transactions = {}
    /\ next_offset = 0
    /\ extents \in {l \in JumpLogs :
                       BlocksOf(l[1]) \cap BlocksOf(l[2]) = {}}
    /\ ino_to_file_map \in
           {[i \in {1} |-> BlueFSFile(s, extents)] : s \in FileSizes}
    /\ oldextents = extents
    /\ logical_offset = 0
    /\ ei = 1
    /\ block = 0
    /\ pc = "block"
    /\ skip = FALSE
    /\ nops = 0
    /\ declared = {}
    /\ updated = {}

NextJumps ==
    \/ BeginBlock
    \/ \E o \in JumpOps : DecodeOperation(o)
    \/ EndTransaction
    \/ NextExtent
    \/ EndRound
    \/ Validate

(***************************************************************************)
(* Part 2: BlueFSFile.mkfile.                                              *)
(*                                                                         *)
(* The image is read-only and its bytes are arbitrary: the byte at address *)
(* a is written ImageByte(a), so a file written by the analyzer shows      *)
(* which image bytes it holds, in which order.                             *)
(***************************************************************************)
\* most extents of an extracted BlueFS file
MaxFileExtents == 2

ImageByte(a) == [addr |-> a]

\* osd.seek(pos); osd.read(n)
ReadImage(pos, n) == [j \in 1..n |-> ImageByte(pos + j - 1)]

\* hashlib.md5 over the bytes fed to it, taken to be free of collisions:
\* the digest stands for the byte sequence it was computed from
Md5Hex(bytes) == [md5_of |-> bytes]

FileExtentLists ==
    UNION {[1..n -> Extents] : n \in 0..MaxFileExtents}
FileSizesOnDisk == 0..(MaxFileExtents * NumBlocks * BlockSize)

IdleMkfile ==
    /\ f_size = 0
    /\ f_extents = <<>>
    /\ f_i = 0
    /\ bsize = 0
    /\ f_body = <<>>
    /\ f_slack = <<>>
    /\ f_md5sum = <<>>
    /\ f_md5 = "none"
    /\ mpc = "idle"

\* mkfile up to the for loop: bsize = self.size, empty files, fresh digest
InitMkfile ==
    /\ f_size \in FileSizesOnDisk
    /\ f_extents \in FileExtentLists
    /\ f_i = 1
    /\ bsize = f_size
    /\ f_body = <<>>
    /\ f_slack = <<>>
    /\ f_md5sum = <<>>
    /\ f_md5 = "none"
    /\ mpc = "loop"

\* one pass of the for loop of mkfile whose extent lies in the file
MkfileExtent ==
    /\ mpc = "loop"
    /\ f_i <= Len(f_extents)
    /\ bsize # 0
    /\ LET e == f_extents[f_i] IN
          IF bsize <= e.length
          THEN LET chunk == ReadImage(e.offset, bsize) IN
               /\ f_md5sum' = f_md5sum \o chunk
               /\ f_body' = f_body \o chunk
               /\ f_slack' = f_slack \o
                      ReadImage(e.offset + bsize, e.length - bsize)
               /\ bsize' = 0
          ELSE LET chunk == ReadImage(e.offset, e.length) IN
               /\ f_md5sum' = f_md5sum \o chunk
               /\ f_body' = f_body \o chunk
               /\ bsize' = bsize - e.length
               /\ UNCHANGED f_slack
    /\ f_i' = f_i + 1
    /\ UNCHANGED <<f_size, f_extents, f_md5, mpc>>
    /\ UNCHANGED <<bvars, xvars, ovars, kvars, dvars, pvars>>

\* the pass of the for loop that finds bsize == 0 and breaks
MkfileBreak ==
    /\ mpc = "loop"
    /\ f_i <= Len(f_extents)
    /\ bsize = 0
    /\ mpc' = "md5"
    /\ UNCHANGED <<f_size, f_extents, f_i, bsize, f_body, f_slack, f_md5sum,
                   f_md5>>
    /\ UNCHANGED <<bvars, xvars, ovars, kvars, dvars, pvars>>

\* the for loop of mkfile runs out of extents
MkfileLoopEnd ==
    /\ mpc = "loop"
    /\ f_i > Len(f_extents)
    /\ mpc' = "md5"
    /\ UNCHANGED <<f_size, f_extents, f_i, bsize, f_body, f_slack, f_md5sum,
                   f_md5>>
    /\ UNCHANGED <<bvars, xvars, ovars, kvars, dvars, pvars>>

\* the digest file is written, then assert(bsize == 0)
MkfileEnd ==
    /\ mpc = "md5"
    /\ f_md5' = Md5Hex(f_md5sum)
    /\ mpc' = IF bsize = 0 THEN "done" ELSE "failed"
    /\ UNCHANGED <<f_size, f_extents, f_i, bsize, f_body, f_slack, f_md5sum>>
    /\ UNCHANGED <<bvars, xvars, ovars, kvars, dvars, pvars>>

NextMkfile ==
    \/ MkfileExtent
    \/ MkfileBreak
    \/ MkfileLoopEnd
    \/ MkfileEnd

(***************************************************************************)
(* Part 3: KVONode.extract.                                                *)
(*                                                                         *)
(* A logical extent has a logical offset, a length and a blob; the bytes   *)
(* of the blob of the k-th extent are written BlobByte(k, 1..n).  A zero   *)
(* byte the analyzer writes, or a hole of the object file, is ZeroByte.    *)
(***************************************************************************)
\* largest onode.size and largest logical offset
MaxObjectSize == 2
\* largest length of a logical extent; a blob holds at most one byte more
MaxLExtentLength == 1
\* most logical extents of an onode
MaxLExtents == 2

ZeroByte == [zero |-> TRUE]
BlobByte(k, j) == [le |-> k, at |-> j]

\* KVBlob.read: the bytes of the valid physical extents of the blob of the
\* k-th logical extent
BlobRead(k, n) == [j \in 1..n |-> BlobByte(k, j)]

\* a read that takes the body at blob_offset and leaves the rest as slack
LExtentReadAtBlobOffset(k, le) ==
    LET content == BlobRead(k, le.blob)
        first == IF le.blob_offset < Len(content) THEN le.blob_offset
                 ELSE Len(content)
        last == IF first + le.length < Len(content) THEN first + le.length
                ELSE Len(content)
    IN  [r |-> SubSeq(content, first + 1, last),
         slack |-> SubSeq(content, 1, first)
                      \o SubSeq(content, last + 1, Len(content))]

\* LExtent.read: (content[:self.length], content[self.length:])
LExtentRead(k, le) ==
    LET content == BlobRead(k, le.blob) IN
    [r |-> SubSeq(content, 1, IF le.length < Len(content) THEN le.length
                              ELSE Len(content)),
     slack |-> SubSeq(content, le.length + 1, Len(content))]

Zeros(n) == [j \in 1..n |-> ZeroByte]

\* write.seek(pos); write.write(data) on a file opened 'wb': the bytes are
\* put at pos, over what is there; a hole before pos reads as zeros
WriteAt(file, pos, data) ==
    IF Len(data) = 0 THEN file
    ELSE LET newlen == IF pos + Len(data) > Len(file) THEN pos + Len(data)
                       ELSE Len(file)
         IN  [j \in 1..newlen |->
                IF j > pos /\ j <= pos + Len(data) THEN data[j - pos]
                ELSE IF j <= Len(file) THEN file[j]
                ELSE ZeroByte]

LExtentValues == [logical_offset : 0..MaxObjectSize,
                  length : 1..MaxLExtentLength,
                  blob : 0..(MaxLExtentLength + 1)]
LExtentLists == UNION {[1..n -> LExtentValues] : n \in 0..MaxLExtents}

\* logical extents with the blob_offset the extent map gives them
LExtentOffsetValues == [logical_offset : {0, MaxLExtentLength},
                        blob_offset : {0, MaxLExtentLength},
                        length : 1..MaxLExtentLength,
                        blob : 0..(MaxLExtentLength + 1)]
LExtentOffsetLists ==
    UNION {[1..n -> LExtentOffsetValues] : n \in 0..MaxLExtents}

IdleExtract ==
    /\ o_size = 0
    /\ lextents = <<>>
    /\ le_i = 0
    /\ w_file = <<>>
    /\ w_pos = 0
    /\ s_file = <<>>
    /\ md5sum = <<>>
    /\ m_file = "none"
    /\ xpc = "idle"
    /\ rows = 0

\* the files are open and empty, md5sum = hashlib.md5()
InitExtract ==
    /\ o_size \in 0..MaxObjectSize
    /\ lextents \in LExtentLists
    /\ le_i = 1
    /\ w_file = <<>>
    /\ w_pos = 0
    /\ s_file = <<>>
    /\ md5sum = <<>>
    /\ m_file = "none"
    /\ xpc = "loop"
    /\ rows = 0

\* the same, for an onode whose extents carry their blob_offset
InitExtractOffsets ==
    /\ o_size = MaxObjectSize
    /\ lextents \in LExtentOffsetLists
    /\ le_i = 1
    /\ w_file = <<>>
    /\ w_pos = 0
    /\ s_file = <<>>
    /\ md5sum = <<>>
    /\ m_file = "none"
    /\ xpc = "loop"
    /\ rows = 0

\* one pass of the for loop of extract
ExtractLExtent ==
    /\ xpc = "loop"
    /\ le_i <= Len(lextents)
    /\ LET le == lextents[le_i]
           x == LExtentRead(le_i, le)
       IN  /\ md5sum' = md5sum \o x.r
           /\ s_file' = s_file \o x.slack
           /\ w_file' = WriteAt(w_file, le.logical_offset, x.r)
           /\ w_pos' = le.logical_offset + Len(x.r)
    /\ le_i' = le_i + 1
    /\ UNCHANGED <<o_size, lextents, m_file, xpc, rows>>
    /\ UNCHANGED <<bvars, mvars, ovars, kvars, dvars, pvars>>

\* after the loop: zero padding up to self.size, the assertion, the digest
ExtractEnd ==
    /\ xpc = "loop"
    /\ le_i > Len(lextents)
    /\ LET missing == o_size - w_pos
           pad == IF missing > 0 THEN Zeros(missing) ELSE <<>>
           tell == w_pos + Len(pad)
       IN  /\ w_file' = WriteAt(w_file, w_pos, pad)
           /\ w_pos' = tell
           /\ md5sum' = md5sum \o pad
           /\ IF tell = o_size
              THEN /\ m_file' = Md5Hex(md5sum')
                   /\ xpc' = "done"
              ELSE /\ UNCHANGED m_file
                   /\ xpc' = "failed"
    /\ UNCHANGED <<o_size, lextents, le_i, s_file, rows>>
    /\ UNCHANGED <<bvars, mvars, ovars, kvars, dvars, pvars>>

NextExtract ==
    \/ ExtractLExtent
    \/ ExtractEnd

(***************************************************************************)
(* Part 4: PrefixHandlerO.decode_object_data.                              *)
(*                                                                         *)
(* An entry of onode_map, in the order of the sorted keys: whether the oid *)
(* matches the filter, whether the onode is None, whether the object file  *)
(* of an earlier run is up to date, whether the oid has a structured       *)
(* decoder, and how the decoder and the extraction of this object end.     *)
(***************************************************************************)
\* most objects of the KV store
MaxObjects == 2

\* how decode_osdmap, decode_inc_osdmap, decode_osd_super, decode_rbd_id end:
\* normally, with VampyrMagicException, with a failed assertion, with
\* NotImplementedError (structure version below the supported one)
DecodeOutcomes == {"ok", "magic", "assert", "notimpl"}
\* how KVONode.extract ends: normally or with its assertion failed
ExtractOutcomes == {"ok", "assert"}

ObjectEntries ==
    {e \in [match : BOOLEAN, null : BOOLEAN, uptodate : BOOLEAN,
            decoder : BOOLEAN, dec : DecodeOutcomes, ext : ExtractOutcomes] :
        /\ (e.null \/ e.uptodate \/ ~e.decoder) => e.dec = "ok"
        /\ (e.null \/ e.uptodate \/ e.dec \in {"assert", "notimpl"})
               => e.ext = "ok"
        /\ e.null => ~e.uptodate /\ ~e.decoder
        /\ ~e.match => ~e.null /\ ~e.uptodate /\ ~e.decoder /\ e.ext = "ok"}

IdleObjects ==
    /\ onode_map = <<>>
    /\ key_i = 0
    /\ handled = {}
    /\ opc = "idle"

InitObjects ==
    /\ onode_map \in UNION {[1..n -> ObjectEntries] : n \in 1..MaxObjects}
    /\ key_i = 1
    /\ handled = {}
    /\ opc = "loop"

\* the pass of the for loop for a key whose oid does not match the filter
SkipObject ==
    /\ opc = "loop"
    /\ key_i <= Len(onode_map)
    /\ ~onode_map[key_i].match
    /\ key_i' = key_i + 1
    /\ UNCHANGED <<onode_map, handled, opc>>
    /\ UNCHANGED <<bvars, mvars, xvars, kvars, dvars, pvars>>

\* the pass of the for loop for a key whose oid matches the filter
DecodeObject ==
    /\ opc = "loop"
    /\ key_i <= Len(onode_map)
    /\ onode_map[key_i].match
    /\ handled' = handled \cup {key_i}
    /\ LET e == onode_map[key_i] IN
          IF ~e.null /\ e.uptodate
          THEN \* "Skipping object": continue
               /\ key_i' = key_i + 1
               /\ UNCHANGED opc
          ELSE IF ~e.null /\ e.decoder /\ e.dec \in {"assert", "notimpl"}
          THEN \* only VampyrMagicException is caught around the decoders
               /\ opc' = "aborted"
               /\ UNCHANGED key_i
          ELSE IF ~e.null /\ e.ext = "assert"
          THEN \* onode.extract is called outside any try
               /\ opc' = "aborted"
               /\ UNCHANGED key_i
          ELSE /\ key_i' = key_i + 1
               /\ UNCHANGED opc
    /\ UNCHANGED onode_map
    /\ UNCHANGED <<bvars, mvars, xvars, kvars, dvars, pvars>>

\* the for loop runs out of keys
ObjectsEnd ==
    /\ opc = "loop"
    /\ key_i > Len(onode_map)
    /\ opc' = "done"
    /\ UNCHANGED <<onode_map, key_i, handled>>
    /\ UNCHANGED <<bvars, mvars, xvars, kvars, dvars, pvars>>

NextObjects ==
    \/ SkipObject
    \/ DecodeObject
    \/ ObjectsEnd

(***************************************************************************)
(* Part 5: the BlueFS object under the calls BlueFSOperation.__init__      *)
(* makes, one call per decoded operation, whatever blocks the operations   *)
(* come from.  A call that fails an assertion leaves the changes it made   *)
(* before the assertion; replay goes on with the operations of the next    *)
(* block.                                                                  *)
(***************************************************************************)
\* most operations decoded from the log
MaxCalls == 4

\* BlueFS.__init__ up to the replay loop
InitCalls ==
    /\ initialized = FALSE
    /\ allocated_areas = <<>>
    /\ allocated_ino = <<>>
    /\ deallocated_ino = <<>>
    /\ dirlist = <<>>
    /\ allocated_extents = <<>>
    /\ deallocated_extents = <<>>
    /\ transactions = {}
    /\ skipped_transactions = {}
    /\ next_offset = 0
    /\ extents \in ExtentLists
    /\ ino_to_file_map \in
           {[i \in {1} |-> BlueFSFile(s, extents)] : s \in FileSizes}
    /\ oldextents = extents
    /\ logical_offset = 0
    /\ ei = 1
    /\ block = 0
    /\ pc = "calls"
    /\ skip = FALSE
    /\ nops = 0
    /\ declared = {}
    /\ updated = {}

\* BlueFSOperation.__init__ for one decoded operation
CallOperation(o) ==
    /\ pc = "calls"
    /\ nops < MaxCalls
    /\ nops' = nops + 1
    /\ LET r == BlueFSOperation(CurFs, o) IN
          /\ SetFs(r.fs)
          /\ History(o, r)
          /\ pc' = IF r.st = "uncaught" THEN "aborted" ELSE "calls"
    /\ UNCHANGED <<transactions, skipped_transactions, loopvars, skip>>
    /\ UNCHANGED <<mvars, xvars, ovars, kvars, dvars, pvars>>

\* the operations on the files and their extents
ExtentCallOps ==
    {o \in Operations : o.op \in {"INIT", "FILE_UPDATE", "FILE_REMOVE"}}
\* the operations on the directories and their links
LinkCallOps ==
    {o \in Operations :
        o.op \in {"INIT", "DIR_CREATE", "DIR_LINK", "DIR_UNLINK"}}

NextExtentCalls == \E o \in ExtentCallOps : CallOperation(o)
NextLinkCalls == \E o \in LinkCallOps : CallOperation(o)

(***************************************************************************)
(* Part 6: the extent map of an onode (KVExtentMap.__init__), decoded from *)
(* the onode row and then from each of its shard rows by                   *)
(* PrefixHandlerO.parse_dataset.  An entry of a row is a gap and a length; *)
(* a contiguous entry has gap 0.                                           *)
(***************************************************************************)
\* largest gap of an entry
MaxGap == 2
\* most entries of one row
MaxRowExtents == 2
\* most rows of one onode
MaxRows == 2

RowEntries == [gap : 0..MaxGap, length : 1..MaxLExtentLength]
RowValues == UNION {[1..n -> RowEntries] : n \in 0..MaxRowExtents}

RECURSIVE DecodeEntries(_, _)
\* the for loop of KVExtentMap.__init__ from position pos on
DecodeEntries(entries, pos) ==
    IF entries = <<>> THEN <<>>
    ELSE LET e == Head(entries)
             loff == pos + e.gap
         IN  <<[logical_offset |-> loff, length |-> e.length,
                blob |-> e.length]>>
                 \o DecodeEntries(Tail(entries), loff + e.length)

\* KVExtentMap(v, onode): pos = 0, then every entry is appended to
\* onode.lextents
KVExtentMap(onode_lextents, entries) ==
    onode_lextents \o DecodeEntries(entries, 0)

\* KVONode(v): self.lextents = []
InitExtentMap ==
    /\ o_size = 0
    /\ lextents = <<>>
    /\ le_i = 0
    /\ w_file = <<>>
    /\ w_pos = 0
    /\ s_file = <<>>
    /\ md5sum = <<>>
    /\ m_file = "none"
    /\ xpc = "rows"
    /\ rows = 0

\* parse_dataset for the onode row or for one shard row of the onode
DecodeExtentMap(entries) ==
    /\ xpc = "rows"
    /\ rows < MaxRows
    /\ rows' = rows + 1
    /\ lextents' = KVExtentMap(lextents, entries)
    /\ UNCHANGED <<o_size, le_i, w_file, w_pos, s_file, md5sum, m_file, xpc>>
    /\ UNCHANGED <<bvars, mvars, ovars, kvars, dvars, pvars>>

NextExtentMap == \E entries \in RowValues : DecodeExtentMap(entries)

(***************************************************************************)
(* Part 7: RDBKV.datasets, the loader of the lines of the dump of the KV   *)
(* store.  The key of a line carries its prefix in its first byte, so the  *)
(* dictionaries of the prefixes are written as one dictionary of keys.     *)
(***************************************************************************)
\* most lines of a dump
MaxLines == 3
\* largest sequence number of a line
MaxSeq == 3

DumpKeys == {"4F00A1", "4D00B2"}
DumpValues == {"00", "01"}
DumpTypes == {1}
\* a line that matches the regular expression, and one that does not
DumpLines ==
    [match : {TRUE}, k : DumpKeys, seq : 1..MaxSeq, t : DumpTypes,
     v : DumpValues]
        \cup {[match |-> FALSE]}

\* every line replaces the row of its key
KeepsStoredNever(d, k, seq) == FALSE
\* if k in self._datasets[prefix] and self._datasets[prefix][k][1] > seq
KeepsStored(d, k, seq) == k \in DOMAIN d /\ d[k].seq > seq

\* one pass of the for loop over the lines
LoadLine(d, line) ==
    IF ~line.match THEN d
    ELSE IF KeepsStored(d, line.k, line.seq) THEN d
    ELSE [x \in DOMAIN d \cup {line.k} |->
             IF x = line.k THEN [v |-> line.v, seq |-> line.seq, t |-> line.t]
             ELSE d[x]]

\* RDBKV.__init__ and the first lines of the property: no line read yet
InitRDBKV ==
    /\ dump = <<>>
    /\ datasets = <<>>

\* the for loop reads the next line of the dump
ReadLine(line) ==
    /\ Len(dump) < MaxLines
    /\ dump' = Append(dump, line)
    /\ datasets' = LoadLine(datasets, line)
    /\ UNCHANGED <<bvars, mvars, xvars, ovars, dvars, pvars>>

NextDump == \E line \in DumpLines : ReadLine(line)

(***************************************************************************)
(* Part 8: the OSD object and its two cursors: the handle of the image     *)
(* file (OSD.seek, OSD.read) and the ByteHandler over bytes already read.  *)
(* Positions are relative to the start offset of the OSD.                  *)
(***************************************************************************)
\* the number of bytes of the image from the start offset on
ImageSize == 3
\* most bytes asked for by one read
MaxRead == 2

\* what may happen in OSD.__init__: the path is no file, every step
\* succeeds, or tempfile.mkdtemp, BlueFS(self) or extract_state raises
InitOutcomes(initkv) ==
    {"notfound", "ok"}
        \cup (IF initkv THEN {"mkdtemp", "BlueFS", "extract_state"} ELSE {})

IdleOSD ==
    /\ rb = "unset"
    /\ extract_dir = "None"
    /\ tmpdir = FALSE
    /\ rb_pos = 0
    /\ osd_read = <<>>
    /\ dpc = "idle"
    /\ mybytes = <<>>
    /\ bh_p = 0
    /\ bh_read = <<>>

\* before OSD(...) is evaluated by the with statement
InitOSD ==
    /\ rb = "unset"
    /\ extract_dir = "None"
    /\ tmpdir = FALSE
    /\ rb_pos = 0
    /\ osd_read = <<>>
    /\ dpc = "new"
    /\ mybytes = <<>>
    /\ bh_p = 0
    /\ bh_read = <<>>

\* OSD.__init__ followed by __enter__; an exception of the constructor
\* leaves the with statement before __enter__ and without __exit__
OSD__init__(initkv, outcome) ==
    /\ dpc = "new"
    /\ outcome \in InitOutcomes(initkv)
    /\ rb' = IF outcome = "notfound" THEN "unset" ELSE "open"
    /\ extract_dir' =
          IF initkv /\ outcome \in {"ok", "BlueFS", "extract_state"}
          THEN "tmp" ELSE "None"
    /\ tmpdir' = (initkv /\ outcome \in {"ok", "BlueFS", "extract_state"})
    /\ dpc' = IF outcome = "ok" THEN "body" ELSE "raised"
    /\ UNCHANGED <<rb_pos, osd_read, mybytes, bh_p, bh_read>>
    /\ UNCHANGED <<bvars, mvars, xvars, ovars, kvars, pvars>>

\* OSD.seek(offset): the file allows a position past its end
seek(offset) ==
    /\ dpc = "body"
    /\ rb_pos' = offset
    /\ UNCHANGED <<rb, extract_dir, tmpdir, osd_read, dpc, mybytes, bh_p,
                   bh_read>>
    /\ UNCHANGED <<bvars, mvars, xvars, ovars, kvars, pvars>>

\* the number of bytes a read of n bytes of the file returns at position pos
FileReadLength(pos, n) ==
    IF pos >= ImageSize THEN 0
    ELSE IF pos + n > ImageSize THEN ImageSize - pos
    ELSE n

\* OSD.read(length): self.rb.read(length)
read(length) ==
    /\ dpc = "body"
    /\ LET got == FileReadLength(rb_pos, length) IN
          /\ osd_read' = [length |-> length, r |-> ReadImage(rb_pos, got)]
          /\ rb_pos' = rb_pos + got
    /\ UNCHANGED <<rb, extract_dir, tmpdir, dpc, mybytes, bh_p, bh_read>>
    /\ UNCHANGED <<bvars, mvars, xvars, ovars, kvars, pvars>>

\* ByteHandler(value) over the bytes the last read returned
ByteHandler__init__ ==
    /\ dpc = "body"
    /\ osd_read # <<>>
    /\ mybytes' = osd_read.r
    /\ bh_p' = 0
    /\ bh_read' = <<>>
    /\ UNCHANGED <<rb, extract_dir, tmpdir, rb_pos, osd_read, dpc>>
    /\ UNCHANGED <<bvars, mvars, xvars, ovars, kvars, pvars>>

\* ByteHandler.read(length): the setter of p raises IndexError for a
\* position past the end, before anything is returned
ByteHandler_read(length) ==
    /\ dpc = "body"
    /\ IF bh_p + length > Len(mybytes)
       THEN /\ bh_read' = [length |-> length, raised |-> TRUE, r |-> <<>>]
            /\ UNCHANGED bh_p
       ELSE /\ bh_read' = [length |-> length, raised |-> FALSE,
                           r |-> SubSeq(mybytes, bh_p + 1, bh_p + length)]
            /\ bh_p' = bh_p + length
    /\ UNCHANGED <<rb, extract_dir, tmpdir, rb_pos, osd_read, dpc, mybytes>>
    /\ UNCHANGED <<bvars, mvars, xvars, ovars, kvars, pvars>>

\* the body of the with statement ends, normally or by an exception, and
\* OSD.__exit__ runs; shutil.rmtree may fail, which is passed over
OSD__exit__(exception, rmtree) ==
    /\ dpc = "body"
    /\ IF extract_dir # "None" /\ tmpdir
       THEN /\ tmpdir' = (rmtree = "fails")
            /\ rb' = "closed"
       ELSE UNCHANGED <<tmpdir, rb>>
    /\ dpc' = IF exception THEN "propagated" ELSE "left"
    /\ UNCHANGED <<extract_dir, rb_pos, osd_read, mybytes, bh_p, bh_read>>
    /\ UNCHANGED <<bvars, mvars, xvars, ovars, kvars, pvars>>

NextOSD ==
    \/ \E initkv \in BOOLEAN : \E outcome \in InitOutcomes(initkv) :
          OSD__init__(initkv, outcome)
    \/ \E offset \in 0..(ImageSize + 1) : seek(offset)
    \/ \E length \in 1..MaxRead : read(length)
    \/ ByteHandler__init__
    \/ \E length \in 1..MaxRead : ByteHandler_read(length)
    \/ \E exception \in BOOLEAN : \E rmtree \in {"ok", "fails"} :
          OSD__exit__(exception, rmtree)

(***************************************************************************)
(* Part 9: primitive decoders reading from a ByteHandler                   *)
(* (vampyr/datatypes.py, vampyr/kv.py).  Python integers have no width; an *)
(* integer the decoders shift past 32 bits is written as the set of the    *)
(* positions of its one bits.                                              *)
(***************************************************************************)
\* most bytes that follow the 32-bit word of an LBA in the input
MaxExtBytes == 2

\* the bits of a byte
BitsOf(n) == {i \in 0..7 : (n \div (2 ^ i)) % 2 = 1}
\* x << k and x >> k
Shl(bits, k) == {i + k : i \in bits}
Shr(bits, k) == {i - k : i \in {j \in bits : j >= k}}

\* int.from_bytes(handle.read(4), byteorder='little')
Word32(bytes, p) ==
    UNION {Shl(BitsOf(bytes[p + 1 + i]), 8 * i) : i \in 0..3}

\* word & 7
LowZero(word) ==
    (IF 0 \in word THEN 1 ELSE 0) + (IF 1 \in word THEN 2 ELSE 0)
        + (IF 2 \in word THEN 4 ELSE 0)

\* the value and the shift chosen by the four cases of word & 7
LBABase(word) ==
    LET low_zero == LowZero(word) IN
    IF low_zero \in {0, 2, 4, 6}
    THEN [v |-> Shl(word \cap 1..30, 12 - 1), shift |-> 12 + 30]
    ELSE IF low_zero \in {1, 5}
    THEN [v |-> Shl(word \cap 2..30, 16 - 2), shift |-> 16 + 29]
    ELSE IF low_zero = 3
    THEN [v |-> Shl(word \cap 3..30, 20 - 3), shift |-> 20 + 28]
    ELSE [v |-> Shr(word \cap 3..30, 3), shift |-> 28]

RECURSIVE LBAExtend(_, _, _, _, _, _)
\* while byte & 0x80 == 0x80: byte is the masked and shifted byte when the
\* condition is evaluated again
LBAExtend(bytes, p, v, byte, shift, length) ==
    IF 7 \notin byte
    THEN [raised |-> FALSE, value |-> v, length |-> length, end |-> p]
    ELSE IF p + 1 > Len(bytes)
    THEN [raised |-> TRUE, value |-> {}, length |-> 0, end |-> p]
    ELSE LET shifted == Shl(BitsOf(bytes[p + 1]) \cap 0..6, shift) IN
         LBAExtend(bytes, p + 1, v \cup shifted, shifted, shift + 7,
                   length + 1)

\* CephLBA(handle) with the handle at position p
CephLBA(bytes, p) ==
    IF p + 4 > Len(bytes)
    THEN [raised |-> TRUE, value |-> {}, length |-> 0, end |-> p]
    ELSE LET word == Word32(bytes, p)
             base == LBABase(word)
         IN  LBAExtend(bytes, p + 4, base.v, Shr(word, 24), base.shift, 4)

\* the inputs: a word of each class of word & 7, with and without bit 3 and
\* with and without the high bit of its top byte, then the bytes after it
LBAFirstBytes == {0, 1, 3, 7, 8, 9, 11, 15}
LBATopBytes == {0, 128}
LBAExtBytes == {1, 129}
LBAInputs ==
    {<<b0, 0, 0, b3>> \o ext :
        b0 \in LBAFirstBytes, b3 \in LBATopBytes,
        ext \in UNION {[1..n -> LBAExtBytes] : n \in 0..MaxExtBytes}}

IdleScan ==
    /\ osdlength = 0
    /\ s_block = -1
    /\ attempted = {}
    /\ structures = {}

IdlePExtents ==
    /\ pextentlist = <<>>
    /\ pe_alloc = <<>>
    /\ pe_unalloc = <<>>
    /\ files = <<>>
    /\ apc = "idle"

\* no row of prefix O loaded
IdleORows ==
    /\ o_datasets = <<>>
    /\ d_i = 0
    /\ lpc = "idle"
    /\ onodes = <<>>
    /\ h_onode_map = <<>>
    /\ poolids = <<>>
    /\ oid_map = <<>>

IdleDecoders ==
    /\ decoded = <<>>
    /\ IdleScan
    /\ IdlePExtents
    /\ IdleORows

\* a ByteHandler over the bytes of an input, nothing decoded yet
InitLBA ==
    /\ rb = "unset"
    /\ extract_dir = "None"
    /\ tmpdir = FALSE
    /\ rb_pos = 0
    /\ osd_read = <<>>
    /\ dpc = "CephLBA"
    /\ mybytes \in LBAInputs
    /\ bh_p = 0
    /\ bh_read = <<>>
    /\ IdleDecoders

\* CephLBA(handle)
DecodeLBA ==
    /\ dpc = "CephLBA"
    /\ decoded = <<>>
    /\ LET r == CephLBA(mybytes, bh_p) IN
          /\ decoded' = r
          /\ bh_p' = r.end
    /\ UNCHANGED <<rb, extract_dir, tmpdir, rb_pos, osd_read, dpc, mybytes,
                   bh_read>>
    /\ UNCHANGED <<bvars, mvars, xvars, ovars, kvars, qvars>>

NextLBA == DecodeLBA

\* most bytes of the input of the escaped-string decoder
MaxStringBytes == 3

\* "A", "!", "#" and the two bytes of the UTF-8 encoding of U+00E9
EscapedBytes == {65, 33, 35, 195, 169}
EscapedInputs ==
    UNION {[1..n -> EscapedBytes] : n \in 0..MaxStringBytes}

RECURSIVE EscapedLoop(_, _, _)
\* ra = handle.read(1), then the while loop of CephEscapedString.__init__;
\* value is the sequence of the code points of self.value
EscapedLoop(bytes, p, value) ==
    IF p + 1 > Len(bytes)
    THEN \* handle.read(1) past the end: IndexError
         [raised |-> TRUE, value |-> <<>>, end |-> p]
    ELSE LET ra == bytes[p + 1] IN
         IF ra = 33 THEN [raised |-> FALSE, value |-> value, end |-> p + 1]
         ELSE IF ra = 35 \/ ra = 126
         THEN IF p + 3 > Len(bytes)
              THEN [raised |-> TRUE, value |-> <<>>, end |-> p + 1]
              ELSE EscapedLoop(bytes, p + 3,
                       Append(value, bytes[p + 2] * 256 + bytes[p + 3]))
         ELSE IF ra >= 128
         THEN \* ra.decode("utf-8") of one byte of a multi-byte character:
              \* UnicodeDecodeError
              [raised |-> TRUE, value |-> <<>>, end |-> p + 1]
         ELSE EscapedLoop(bytes, p + 1, Append(value, ra))

\* CephEscapedString(handle) with the handle at position p
CephEscapedString(bytes, p) == EscapedLoop(bytes, p, <<>>)

InitEscapedString ==
    /\ rb = "unset"
    /\ extract_dir = "None"
    /\ tmpdir = FALSE
    /\ rb_pos = 0
    /\ osd_read = <<>>
    /\ dpc = "CephEscapedString"
    /\ mybytes \in EscapedInputs
    /\ bh_p = 0
    /\ bh_read = <<>>
    /\ IdleDecoders

\* CephEscapedString(handle)
DecodeEscapedString ==
    /\ dpc = "CephEscapedString"
    /\ decoded = <<>>
    /\ LET r == CephEscapedString(mybytes, bh_p) IN
          /\ decoded' = r
          /\ bh_p' = r.end
    /\ UNCHANGED <<rb, extract_dir, tmpdir, rb_pos, osd_read, dpc, mybytes,
                   bh_read>>
    /\ UNCHANGED <<bvars, mvars, xvars, ovars, kvars, qvars>>

NextEscapedString == DecodeEscapedString

(***************************************************************************)
(* Part 10: the scan action of main (vampyr.py): the sweep of the image in *)
(* windows, with decode_osdmap, decode_inc_osdmap and decode_osd_super     *)
(* tried at each window.  The cursor of the OSD is rb_pos.                 *)
(***************************************************************************)
\* bytes of a window (blength, 0x10000 in the source)
WindowBytes == 2
\* most windows of the image
MaxWindows == 4

ScanDecoders == {"osdmap", "inc_osdmap", "osd_super"}

\* what the three decoders may do at the window at pos: one of them
\* decodes a structure that ends at a later position, or all three fail and
\* the last one leaves the cursor where its last read ended (a read of a
\* string or bufferlist of the image may be of any length)
ScanOutcomes(pos) ==
    [found : {TRUE}, decoder : ScanDecoders, tell : (pos + 1)..osdlength]
        \cup [found : {FALSE}, decoder : {"none"},
              tell : (pos + 1)..osdlength]

\* with OSD(osdpath, startoffset=offset, initkv=False) as osd, up to the
\* while loop
InitScan ==
    /\ rb = "open"
    /\ extract_dir = "None"
    /\ tmpdir = FALSE
    /\ rb_pos = 0
    /\ osd_read = <<>>
    /\ dpc = "scan"
    /\ mybytes = <<>>
    /\ bh_p = 0
    /\ bh_read = <<>>
    /\ decoded = <<>>
    /\ osdlength \in (2 * WindowBytes)..(MaxWindows * WindowBytes)
    /\ s_block = -1
    /\ attempted = {}
    /\ structures = {}
    /\ IdlePExtents
    /\ IdleORows

\* one pass of the while loop
ScanWindow(outcome) ==
    /\ dpc = "scan"
    /\ rb_pos < osdlength - WindowBytes
    /\ LET pos == WindowBytes * (s_block + 1) IN
          /\ outcome \in ScanOutcomes(pos)
          /\ attempted' = attempted \cup {pos}
          /\ rb_pos' = outcome.tell
          /\ IF outcome.found
             THEN \* block = osd.tell() // blength; continue
                  /\ s_block' = outcome.tell \div WindowBytes
                  /\ structures' = structures \cup
                        {[pos |-> pos, end |-> outcome.tell,
                          decoder |-> outcome.decoder]}
             ELSE /\ s_block' = s_block + 1
                  /\ UNCHANGED structures
    /\ UNCHANGED <<rb, extract_dir, tmpdir, osd_read, dpc, mybytes, bh_p,
                   bh_read, decoded, osdlength, avars, hvars>>
    /\ UNCHANGED <<bvars, mvars, xvars, ovars, kvars>>

\* the condition of the while loop is false: return
ScanEnd ==
    /\ dpc = "scan"
    /\ ~(rb_pos < osdlength - WindowBytes)
    /\ dpc' = "scanned"
    /\ UNCHANGED <<rb, extract_dir, tmpdir, rb_pos, osd_read, mybytes, bh_p,
                   bh_read, decoded, svars, avars, hvars>>
    /\ UNCHANGED <<bvars, mvars, xvars, ovars, kvars>>

NextScan ==
    \/ \E pos \in 0..(MaxWindows * WindowBytes) :
          \E outcome \in ScanOutcomes(pos) : ScanWindow(outcome)
    \/ ScanEnd

(***************************************************************************)
(* Part 11: the physical extents recorded while the KV store is decoded    *)
(* (CephPExtent.pextentlist), the allocated and unallocated areas derived  *)
(* from them and the extraction of the unallocated areas.  The image file  *)
(* is osdlength bytes long and its cursor is rb_pos.                       *)
(***************************************************************************)
\* bytes reserved at the start of the device (0x2000 in the source)
ReservedBytes == 1
\* largest osdlength
MaxOsdLength == 5
\* largest length of a physical extent
MaxPELength == 2
\* most physical extents recorded
MaxPExtents == 2

PExtents == [offset : 0..MaxOsdLength, length : 0..MaxPELength]

RECURSIVE InsertByOffset(_, _)
\* pe placed after the extents whose offset is not greater than its own
InsertByOffset(list, pe) ==
    IF list = <<>> THEN <<pe>>
    ELSE IF pe.offset < Head(list).offset THEN <<pe>> \o list
    ELSE <<Head(list)>> \o InsertByOffset(Tail(list), pe)

RECURSIVE SortedPExtents(_)
\* sorted(CephPExtent.pextentlist): stable, by __lt__ on the offsets
SortedPExtents(list) ==
    IF list = <<>> THEN <<>>
    ELSE InsertByOffset(SortedPExtents(SubSeq(list, 1, Len(list) - 1)),
                        list[Len(list)])

\* a pass of the for loop that meets an extent below the end of the last
\* allocated area keeps it as an area of its own
AllocStepNoRaise(st, pe) ==
    IF st.raised THEN st
    ELSE LET e == st.alloc[Len(st.alloc)] IN
         IF pe.offset > e[1] + e[2]
         THEN [raised |-> FALSE,
               alloc |-> Append(st.alloc, <<pe.offset, pe.length>>),
               unalloc |-> Append(st.unalloc,
                                  <<e[1] + e[2], pe.offset - (e[1] + e[2])>>)]
         ELSE IF pe.offset = e[1] + e[2]
         THEN [st EXCEPT !.alloc[Len(st.alloc)] = <<e[1], e[2] + pe.length>>]
         ELSE [st EXCEPT !.alloc = Append(st.alloc, <<pe.offset, pe.length>>)]

\* one pass of the for loop of _init_alloc_state
AllocStep(st, pe) ==
    IF st.raised THEN st
    ELSE LET e == st.alloc[Len(st.alloc)] IN
         IF pe.offset > e[1] + e[2]
         THEN [raised |-> FALSE,
               alloc |-> Append(st.alloc, <<pe.offset, pe.length>>),
               unalloc |-> Append(st.unalloc,
                                  <<e[1] + e[2], pe.offset - (e[1] + e[2])>>)]
         ELSE IF pe.offset = e[1] + e[2]
         THEN [st EXCEPT !.alloc[Len(st.alloc)] = <<e[1], e[2] + pe.length>>]
         ELSE \* raise Exception("should not happen")
              [st EXCEPT !.raised = TRUE]

RECURSIVE AllocLoop(_, _)
AllocLoop(st, list) ==
    IF list = <<>> THEN st
    ELSE AllocLoop(AllocStep(st, Head(list)), Tail(list))

\* CephPExtent._init_alloc_state(osdlength): the lists it assigns, or raised
_init_alloc_state(list, length) ==
    LET st == AllocLoop([raised |-> FALSE,
                         alloc |-> <<<<0, ReservedBytes>>>>,
                         unalloc |-> <<>>],
                        SortedPExtents(list))
        last == st.alloc[Len(st.alloc)]
        last_offset == last[1] + last[2]
    IN  IF st.raised THEN st
        ELSE IF last_offset < length
        THEN [st EXCEPT !.unalloc =
                 Append(st.unalloc, <<last_offset, length - last_offset>>)]
        ELSE IF last_offset = length THEN st
        ELSE \* raise Exception("whoops. More extents than OSD")
             [st EXCEPT !.raised = TRUE]

\* r.read(n) with the cursor at pos: the bytes the file still has
ReadAtCursor(pos, n) ==
    ReadImage(pos, IF pos >= osdlength THEN 0
                   ELSE IF pos + n > osdlength THEN osdlength - pos
                   ELSE n)

RECURSIVE ExtractAreas(_, _, _)
\* the for loop of extract_unallocated: each area is read at the cursor,
\* in pieces of at most 512M that follow each other
ExtractAreas(areas, pos, written) ==
    IF areas = <<>> THEN [files |-> written, tell |-> pos]
    ELSE LET e == Head(areas)
             content == ReadAtCursor(pos, e[2])
         IN  ExtractAreas(Tail(areas), pos + Len(content),
                 [x \in DOMAIN written \cup {e[1]} |->
                     IF x = e[1] THEN content ELSE written[x]])

\* the KV store is being decoded; nothing recorded yet
InitPExtents ==
    /\ rb = "open"
    /\ extract_dir = "tmp"
    /\ tmpdir = TRUE
    /\ rb_pos \in {0, ReservedBytes}
    /\ osd_read = <<>>
    /\ dpc = "pextents"
    /\ mybytes = <<>>
    /\ bh_p = 0
    /\ bh_read = <<>>
    /\ decoded = <<>>
    /\ osdlength = MaxOsdLength
    /\ s_block = -1
    /\ attempted = {}
    /\ structures = {}
    /\ pextentlist = <<>>
    /\ pe_alloc = <<>>
    /\ pe_unalloc = <<>>
    /\ files = <<>>
    /\ apc = "run"
    /\ IdleORows

\* CephPExtent(handle) has decoded a physical extent; a valid one is
\* recorded
CephPExtent__init__(pe, valid) ==
    /\ apc = "run"
    /\ Len(pextentlist) < MaxPExtents
    /\ pextentlist' = IF valid THEN Append(pextentlist, pe) ELSE pextentlist
    /\ UNCHANGED <<pe_alloc, pe_unalloc, files, apc>>
    /\ UNCHANGED <<bvars, mvars, xvars, ovars, kvars, dvars, decoded, svars,
                   hvars>>

\* if not CephPExtent.alloc or not CephPExtent.unalloc:
\*     CephPExtent._init_alloc_state(osdlength)
EnsureAllocState ==
    IF pe_alloc = <<>> \/ pe_unalloc = <<>>
    THEN _init_alloc_state(pextentlist, osdlength)
    ELSE [raised |-> FALSE, alloc |-> pe_alloc, unalloc |-> pe_unalloc]

\* CephPExtent.pretty_print(osdlength)
pretty_print ==
    /\ apc = "run"
    /\ LET st == EnsureAllocState IN
          IF st.raised
          THEN /\ apc' = "raised"
               /\ UNCHANGED <<pe_alloc, pe_unalloc>>
          ELSE /\ pe_alloc' = st.alloc
               /\ pe_unalloc' = st.unalloc
               /\ UNCHANGED apc
    /\ UNCHANGED <<pextentlist, files>>
    /\ UNCHANGED <<bvars, mvars, xvars, ovars, kvars, dvars, decoded, svars,
                   hvars>>

\* CephPExtent.extract_unallocated(osdlength, r, edir)
extract_unallocated ==
    /\ apc = "run"
    /\ LET st == EnsureAllocState IN
          IF st.raised
          THEN /\ apc' = "raised"
               /\ UNCHANGED <<pe_alloc, pe_unalloc, files, rb_pos>>
          ELSE LET x == ExtractAreas(st.unalloc, rb_pos, files) IN
               /\ pe_alloc' = st.alloc
               /\ pe_unalloc' = st.unalloc
               /\ files' = x.files
               /\ rb_pos' = x.tell
               /\ apc' = "extracted"
    /\ UNCHANGED pextentlist
    /\ UNCHANGED <<rb, extract_dir, tmpdir, osd_read, dpc, mybytes, bh_p,
                   bh_read>>
    /\ UNCHANGED <<bvars, mvars, xvars, ovars, kvars, decoded, svars, hvars>>

\* OSD.pextents_extract_unallocated(extractdir): its first statement calls
\* self.read_bluestore_label(), a method the class does not have
pextents_extract_unallocated ==
    /\ apc = "run"
    /\ apc' = "AttributeError"
    /\ UNCHANGED <<pextentlist, pe_alloc, pe_unalloc, files>>
    /\ UNCHANGED <<bvars, mvars, xvars, ovars, kvars, dvars, decoded, svars,
                   hvars>>

NextPExtents ==
    \/ \E pe \in PExtents : \E valid \in BOOLEAN :
          CephPExtent__init__(pe, valid)
    \/ pretty_print
    \/ extract_unallocated
    \/ pextents_extract_unallocated

(***************************************************************************)
(* Part 12: RDBKV._load(PrefixHandlerO) and PrefixHandlerO.parse_dataset.  *)
(* A row key is the object key it starts with (what KVObjectNameKey        *)
(* hashes: key, poolid, snap and generation, taken as one number) and the  *)
(* number of the shard that follows it: 0 for the onode row, whose key     *)
(* ends after the object key, n > 0 for a shard row (offset, 'x').  A      *)
(* value is 0 for the empty byte string and n > 0 for bytes that decode    *)
(* to the onode of oid n (onode row) or to extent map entries (shard row). *)
(***************************************************************************)
MaxObjectKeys == 2
MaxShardRows == 2
MaxOids == 2
MaxORows == 3

ORowKeys == [key : 1..MaxObjectKeys, shard : 0..MaxShardRows]
ORowValues == 0..MaxOids

\* the order of the bytes of two row keys: the key of the onode row is a
\* prefix of the keys of the shard rows of its object
RowKeyLess(a, b) == a.key < b.key \/ (a.key = b.key /\ a.shard < b.shard)

\* sorted(datasets.keys())
SortedRowKeys(ks) ==
    CHOOSE s \in [1..Cardinality(ks) -> ks] :
        \A i, j \in 1..Cardinality(ks) : i < j => RowKeyLess(s[i], s[j])

\* thiskey.poolid
PoolOf(key) == (key + 1) \div 2

\* d[k] = v for a dict
DictPut(d, k, v) == [x \in DOMAIN d \cup {k} |-> IF x = k THEN v ELSE d[x]]

\* the PrefixHandlerO object and the onodes it refers to
CurHandler == [onodes |-> onodes, onode_map |-> h_onode_map,
               poolids |-> poolids, oid_map |-> oid_map]

\* PrefixHandlerO.parse_dataset(k, v); matched: a shard of the onode has the
\* offset of the key and the length of the value
parse_dataset(h, k, v, matched) ==
    LET thiskey == k.key
        h1 == [h EXCEPT !.poolids =
                  IF InList(PoolOf(thiskey), @) THEN @
                  ELSE Append(@, PoolOf(thiskey))]
    IN  IF v = 0
        THEN \* if len(v) == 0: self.onode_map[thiskey] = None; return
             [h |-> [h1 EXCEPT !.onode_map = DictPut(@, thiskey, "None")],
              st |-> "ok"]
        ELSE IF k.shard = 0
        THEN \* if k.end(): onode, followed by extent map
             [h |-> [h1 EXCEPT
                       !.onodes = DictPut(@, thiskey,
                                     [oid |-> v, extent_maps |-> 1,
                                      used |-> {}]),
                       !.onode_map = DictPut(@, thiskey, "onode"),
                       !.oid_map = DictPut(@, v, thiskey)],
              st |-> "ok"]
        ELSE IF thiskey \notin DOMAIN h.onode_map
        THEN \* onode = self.onode_map[thiskey]
             [h |-> h1, st |-> "KeyError"]
        ELSE IF h.onode_map[thiskey] = "None"
        THEN \* if not onode: return
             [h |-> h1, st |-> "ok"]
        ELSE [h |-> [h1 EXCEPT
                       !.onodes[thiskey] =
                           [@ EXCEPT !.extent_maps = @ + 1,
                                     !.used = IF matched
                                              THEN @ \cup {k.shard}
                                              ELSE @]],
              st |-> "ok"]

\* RDBKV._load(phandler) before its loop, the handler just constructed
InitORows ==
    /\ o_datasets \in UNION {[ks -> ORowValues] :
           ks \in {x \in SUBSET ORowKeys : Cardinality(x) \in 1..MaxORows}}
    /\ d_i = 0
    /\ lpc = "load"
    /\ onodes = <<>>
    /\ h_onode_map = <<>>
    /\ poolids = <<>>
    /\ oid_map = <<>>

\* one pass of the loop of _load: for d in sorted(datasets.keys())
LoadRow(matched) ==
    /\ lpc = "load"
    /\ d_i < Cardinality(DOMAIN o_datasets)
    /\ LET k == SortedRowKeys(DOMAIN o_datasets)[d_i + 1]
           r == parse_dataset(CurHandler, k, o_datasets[k], matched)
       IN  /\ onodes' = r.h.onodes
           /\ h_onode_map' = r.h.onode_map
           /\ poolids' = r.h.poolids
           /\ oid_map' = r.h.oid_map
           /\ lpc' = IF r.st = "ok" THEN "load" ELSE r.st
    /\ d_i' = d_i + 1
    /\ UNCHANGED o_datasets
    /\ UNCHANGED <<bvars, mvars, xvars, ovars, kvars, dvars, decoded, svars,
                   avars>>

\* the loop of _load is over
LoadEnd ==
    /\ lpc = "load"
    /\ d_i = Cardinality(DOMAIN o_datasets)
    /\ lpc' = "done"
    /\ UNCHANGED <<o_datasets, d_i, onodes, h_onode_map, poolids, oid_map>>
    /\ UNCHANGED <<bvars, mvars, xvars, ovars, kvars, dvars, decoded, svars,
                   avars>>

NextORows ==
    \/ \E matched \in BOOLEAN : LoadRow(matched)
    \/ LoadEnd

(***************************************************************************)
(* Specifications.                                                         *)
(***************************************************************************)
Init ==
    InitBlueFS /\ IdleMkfile /\ IdleExtract /\ IdleObjects
    /\ InitRDBKV /\ IdleOSD /\ IdleDecoders
SpecFiles == Init /\ [][NextFiles]_vars
SpecLog == Init /\ [][NextLog]_vars
SpecDirs == Init /\ [][NextDirs]_vars
SpecControl == Init /\ [][NextControl]_vars
SpecEveryKind == Init /\ [][NextEveryKind]_vars
\* the constructor runs on: a step that can be taken is taken
JumpsInit ==
    InitJumpLog /\ IdleMkfile /\ IdleExtract /\ IdleObjects
    /\ InitRDBKV /\ IdleOSD /\ IdleDecoders
SpecJumps == JumpsInit /\ [][NextJumps]_vars

SpecLogFair == Init /\ [][NextLogAnywhere]_vars /\ WF_vars(NextLogAnywhere)

IdleBlueFS ==
    /\ initialized = FALSE
    /\ allocated_areas = <<>>
    /\ allocated_ino = <<>>
    /\ deallocated_ino = <<>>
    /\ dirlist = <<>>
    /\ allocated_extents = <<>>
    /\ deallocated_extents = <<>>
    /\ ino_to_file_map = <<>>
    /\ transactions = {}
    /\ skipped_transactions = {}
    /\ next_offset = 0
    /\ extents = <<>>
    /\ oldextents = <<>>
    /\ logical_offset = 0
    /\ ei = 0
    /\ block = 0
    /\ pc = "idle"
    /\ skip = FALSE
    /\ nops = 0
    /\ declared = {}
    /\ updated = {}

ExtentCallsInit ==
    InitCalls /\ IdleMkfile /\ IdleExtract /\ IdleObjects
    /\ InitRDBKV /\ IdleOSD /\ IdleDecoders
SpecExtentCalls == ExtentCallsInit /\ [][NextExtentCalls]_vars

LinkCallsInit ==
    InitCalls /\ IdleMkfile /\ IdleExtract /\ IdleObjects
    /\ InitRDBKV /\ IdleOSD /\ IdleDecoders
SpecLinkCalls == LinkCallsInit /\ [][NextLinkCalls]_vars

ExtentMapInit ==
    IdleBlueFS /\ IdleMkfile /\ InitExtentMap /\ IdleObjects
    /\ InitRDBKV /\ IdleOSD /\ IdleDecoders
SpecExtentMap == ExtentMapInit /\ [][NextExtentMap]_vars

DumpInit ==
    IdleBlueFS /\ IdleMkfile /\ IdleExtract /\ IdleObjects
    /\ InitRDBKV /\ IdleOSD /\ IdleDecoders
SpecDump == DumpInit /\ [][NextDump]_vars

OSDInit ==
    IdleBlueFS /\ IdleMkfile /\ IdleExtract /\ IdleObjects
    /\ InitRDBKV /\ InitOSD /\ IdleDecoders
SpecOSD == OSDInit /\ [][NextOSD]_vars

LBAInit ==
    IdleBlueFS /\ IdleMkfile /\ IdleExtract /\ IdleObjects
    /\ InitRDBKV /\ InitLBA
SpecLBA == LBAInit /\ [][NextLBA]_vars

EscapedStringInit ==
    IdleBlueFS /\ IdleMkfile /\ IdleExtract /\ IdleObjects
    /\ InitRDBKV /\ InitEscapedString
SpecEscapedString == EscapedStringInit /\ [][NextEscapedString]_vars

ScanInit ==
    IdleBlueFS /\ IdleMkfile /\ IdleExtract /\ IdleObjects
    /\ InitRDBKV /\ InitScan
SpecScan == ScanInit /\ [][NextScan]_vars

PExtentsInit ==
    IdleBlueFS /\ IdleMkfile /\ IdleExtract /\ IdleObjects
    /\ InitRDBKV /\ InitPExtents
SpecPExtents == PExtentsInit /\ [][NextPExtents]_vars

ORowsInit ==
    IdleBlueFS /\ IdleMkfile /\ IdleExtract /\ IdleObjects
    /\ InitRDBKV /\ IdleOSD /\ decoded = <<>> /\ IdleScan /\ IdlePExtents
    /\ InitORows
SpecORows == ORowsInit /\ [][NextORows]_vars

ExtractOffsetsInit ==
    IdleBlueFS /\ IdleMkfile /\ InitExtractOffsets /\ IdleObjects
    /\ InitRDBKV /\ IdleOSD /\ IdleDecoders
SpecExtractOffsets == ExtractOffsetsInit /\ [][NextExtract]_vars

MkfileInit ==
    IdleBlueFS /\ InitMkfile /\ IdleExtract /\ IdleObjects
    /\ InitRDBKV /\ IdleOSD /\ IdleDecoders
SpecMkfile == MkfileInit /\ [][NextMkfile]_vars

ExtractInit ==
    IdleBlueFS /\ IdleMkfile /\ InitExtract /\ IdleObjects
    /\ InitRDBKV /\ IdleOSD /\ IdleDecoders
SpecExtract == ExtractInit /\ [][NextExtract]_vars

ObjectsInit ==
    IdleBlueFS /\ IdleMkfile /\ IdleExtract /\ InitObjects
    /\ InitRDBKV /\ IdleOSD /\ IdleDecoders
SpecObjects == ObjectsInit /\ [][NextObjects]_vars

(***************************************************************************)
(* Properties.                                                             *)
(***************************************************************************)

\* C1: during replay, a block decoded while next_offset > logical_offset (a
\* skipped block) is only recorded in skipped_transactions: no step taken
\* inside such a block changes the allocator regions, the directory list,
\* the ino-to-file map, allocated_ino, deallocated_ino, allocated_extents,
\* deallocated_extents, or the applied transactions.
C1_SkippedBlockChangesNothing ==
    [][(pc = "ops" /\ skip) =>
          UNCHANGED <<allocated_areas, dirlist, ino_to_file_map,
                      allocated_ino, deallocated_ino, allocated_extents,
                      deallocated_extents, transactions>>]_vars

\* a skipped block is being decoded and the log holds a further operation
C1_SkippedBlockDecoded ==
    /\ pc = "ops"
    /\ skip
    /\ initialized
    /\ nops < MaxLogOps

\* byte j of the object (counted from 1) lies in a logical extent
C2_Covered(j) ==
    \E k \in 1..Len(lextents) :
        /\ lextents[k].logical_offset < j
        /\ j <= lextents[k].logical_offset + lextents[k].length

\* C2: KVONode.extract either fails or leaves an object body of exactly
\* onode.size bytes in which every byte of [0, onode.size) that no logical
\* extent covers is zero, whatever the list of logical extents is.
C2_BodyHasObjectSize ==
    xpc = "done" =>
        /\ Len(w_file) = o_size
        /\ \A j \in 1..o_size : ~C2_Covered(j) => w_file[j] = ZeroByte

\* extract returned normally and the object file is longer than onode.size
C2_BodyTooLong ==
    xpc = "done" /\ Len(w_file) > o_size

\* the logical extents are in ascending order, do not overlap, and their
\* blobs hold all their bytes
C3_Ascending ==
    /\ \A k \in 1..Len(lextents) : lextents[k].blob >= lextents[k].length
    /\ \A k \in 1..Len(lextents) : \A l \in 1..Len(lextents) :
          k < l => lextents[k].logical_offset + lextents[k].length
                      <= lextents[l].logical_offset

\* C3: the digest written to md5_object is the digest of the byte sequence
\* of the extracted body, the zero bytes of the gaps before, between and
\* after the extents included.  Stated for the lists of extents in
\* ascending order without overlap, whose blobs hold all their bytes.
C3_DigestOfBody ==
    (xpc = "done" /\ C3_Ascending) => m_file = Md5Hex(w_file)

\* extract returned normally for one extent that starts after a gap, the
\* body has onode.size bytes, and the digest is of fewer bytes
C3_DigestOmitsGap ==
    /\ xpc = "done"
    /\ C3_Ascending
    /\ Len(w_file) = o_size
    /\ Len(m_file.md5_of) < o_size

\* the sum of the extent lengths, and the bytes of the extents in order
RECURSIVE C4_TotalLength(_)
C4_TotalLength(exts) ==
    IF exts = <<>> THEN 0
    ELSE Head(exts).length + C4_TotalLength(Tail(exts))

RECURSIVE C4_ReadExtents(_)
C4_ReadExtents(exts) ==
    IF exts = <<>> THEN <<>>
    ELSE ReadImage(Head(exts).offset, Head(exts).length)
             \o C4_ReadExtents(Tail(exts))

\* C4: mkfile of a file of size s <= total extent length writes as body the
\* first s bytes of the concatenated extents and as slack all the remaining
\* bytes of the extents, so len(body) = s and len(body) + len(slack) is the
\* sum of the extent lengths; s = 0 and extents past the logical end
\* included.
C4_BodyAndSlack ==
    (mpc = "done" /\ f_size <= C4_TotalLength(f_extents)) =>
        LET all == C4_ReadExtents(f_extents) IN
        /\ Len(f_body) = f_size
        /\ Len(f_body) + Len(f_slack) = C4_TotalLength(f_extents)
        /\ f_body = SubSeq(all, 1, f_size)
        /\ f_slack = SubSeq(all, f_size + 1, Len(all))

\* mkfile returned normally for a file that is not empty, and an extent
\* past the logical end is in neither file
C4_SlackLost ==
    /\ mpc = "done"
    /\ f_size > 0
    /\ Len(f_body) = f_size
    /\ Len(f_body) + Len(f_slack) < C4_TotalLength(f_extents)

\* C5: replay is never aborted by a block: whatever the block holds, the
\* step that leaves the block goes on to the next block, and logical_offset
\* advances by block_size.
C5_BlockNeverAborts ==
    [][(pc = "ops" /\ pc' # "ops") =>
          /\ pc' = "block"
          /\ block' = block + 1
          /\ logical_offset' = logical_offset + BlockSize]_vars

\* the constructor was left by an exception after INIT had been applied
C5_AbortedAfterInit ==
    pc = "aborted" /\ initialized

\* C6: in decode_object_data a failure on one object does not stop the
\* loop: when the loop is over, every object whose oid matches the filter
\* has been reached.
C6_EveryMatchHandled ==
    opc # "loop" =>
        \A k \in 1..Len(onode_map) : onode_map[k].match => k \in handled

\* the loop was left by an exception with a matching object still to come
C6_LaterObjectLost ==
    /\ opc = "aborted"
    /\ \E k \in 1..Len(onode_map) :
          onode_map[k].match /\ k > key_i /\ k \notin handled

\* C7: DIR_CREATE is idempotent: a DIR_CREATE for a name the directory list
\* holds leaves the list unchanged, and after every step the list holds at
\* most one directory per name.
C7_DirCreateIdempotent ==
    [][/\ \A d \in Dirnames :
            (/\ DecodeOperation([op |-> "DIR_CREATE", dir |-> d])
             /\ \E i \in 1..Len(dirlist) : dirlist[i].dirname = d)
                => dirlist' = dirlist
       /\ \A i \in 1..Len(dirlist') : \A j \in 1..Len(dirlist') :
            dirlist'[i].dirname = dirlist'[j].dirname => i = j]_vars

\* two directories of the list have the same name
C7_DuplicateDir ==
    \E i \in 1..Len(dirlist) : \E j \in 1..Len(dirlist) :
        i # j /\ dirlist[i].dirname = dirlist[j].dirname

\* C8: after a replay that completes without error, every extent of every
\* file of the ino-to-file map, the log file included, lies with its whole
\* range inside a region an ALLOC_ADD has declared.
C8_FileExtentsInDeclaredRegions ==
    pc = "done" =>
        \A ino \in DOMAIN ino_to_file_map :
            \A i \in 1..Len(ino_to_file_map[ino].extents) :
                LET e == ino_to_file_map[ino].extents[i] IN
                \E r \in declared :
                    e.offset >= r[1] /\ e.offset + e.length <= r[1] + r[2]

\* construction completed, the log was applied and declared a region, and
\* an extent of the log file reaches past every declared region
C8_LogExtentOutside ==
    /\ pc = "done"
    /\ initialized
    /\ declared # {}
    /\ 1 \in DOMAIN ino_to_file_map
    /\ \E i \in 1..Len(ino_to_file_map[1].extents) :
          LET e == ino_to_file_map[1].extents[i] IN
          \A r \in declared : e.offset + e.length > r[1] + r[2]

\* every allocated extent lies inside one region of the allocator map
C9_AllInside ==
    \A i \in 1..Len(allocated_extents) :
        \E id \in DOMAIN allocated_areas :
            /\ allocated_extents[i].offset >= allocated_areas[id][1]
            /\ allocated_extents[i].offset + allocated_extents[i].length
                   <= allocated_areas[id][1] + allocated_areas[id][2]

\* C9: when construction completes without error, every extent of
\* allocated_extents lies with its whole range [offset, offset + length)
\* inside one region of the final allocator map; when construction fails
\* at the validation, some extent does not.
C9_AllocatedExtentsInRegions ==
    /\ pc = "done" => C9_AllInside
    /\ pc = "failed" => ~C9_AllInside

\* construction completed with a region declared and an extent allocated
C9_CompletedWithExtents ==
    /\ pc = "done"
    /\ Len(allocated_extents) > 0
    /\ DOMAIN allocated_areas # {}

\* C10: when FILE_UPDATE replaces the FNode of an ino that has a file, the
\* extents of the old FNode that the new one lacks (and no other file
\* holds) move from allocated_extents to deallocated_extents, and every
\* extent of the new FNode is in allocated_extents and not in
\* deallocated_extents.
C10_FileUpdateMovesExtents ==
    [][\A o \in FileOps :
          (/\ o.op = "FILE_UPDATE"
           /\ DecodeOperation(o)
           /\ initialized
           /\ o.ino \in DOMAIN ino_to_file_map)
          =>
          /\ \A i \in 1..Len(ino_to_file_map[o.ino].extents) :
                LET e == ino_to_file_map[o.ino].extents[i] IN
                (/\ ~ExtentIn(e, o.extents)
                 /\ \A other \in DOMAIN ino_to_file_map \ {o.ino} :
                       ~ExtentIn(e, ino_to_file_map[other].extents))
                => /\ ~ExtentIn(e, allocated_extents')
                   /\ ExtentIn(e, deallocated_extents')
          /\ \A i \in 1..Len(o.extents) :
                /\ ExtentIn(o.extents[i], allocated_extents')
                /\ ~ExtentIn(o.extents[i], deallocated_extents')]_vars

\* an extent is in allocated_extents that no file of the map holds, and
\* nothing was ever removed
C10_StaleAllocatedExtent ==
    /\ deallocated_extents = <<>>
    /\ deallocated_ino = <<>>
    /\ \E i \in 1..Len(allocated_extents) :
          \A ino \in DOMAIN ino_to_file_map :
              ~ExtentIn(allocated_extents[i], ino_to_file_map[ino].extents)

\* the offsets of the extents of a list
C11_OffsetsOf(s) == {s[i].offset : i \in 1..Len(s)}

\* C11: after any sequence of FILE_UPDATE and FILE_REMOVE operations no
\* extent, identified by its offset, is in both allocated_extents and
\* deallocated_extents, and every extent an applied FILE_UPDATE has carried
\* is in exactly one of the two lists.
C11_ExtentsPartitioned ==
    /\ C11_OffsetsOf(allocated_extents)
           \cap C11_OffsetsOf(deallocated_extents) = {}
    /\ \A off \in updated :
           (off \in C11_OffsetsOf(allocated_extents))
               # (off \in C11_OffsetsOf(deallocated_extents))

\* an updated extent was removed with its file, another one is allocated,
\* and the removed ino has a file again
C11_ExtentsMoved ==
    /\ updated \cap C11_OffsetsOf(deallocated_extents) # {}
    /\ updated \cap C11_OffsetsOf(allocated_extents) # {}
    /\ deallocated_ino = <<>>
    /\ nops = MaxCalls

\* C12: after replay every ino linked in a directory is a key of the
\* ino-to-file map or is recorded as removed in deallocated_ino, whatever
\* the order of the DIR_LINK, FILE_UPDATE and FILE_REMOVE operations.
C12_LinkedInoKnown ==
    pc = "done" =>
        \A d \in 1..Len(dirlist) :
            \A l \in 1..Len(dirlist[d].ino_to_file_map) :
                LET ino == dirlist[d].ino_to_file_map[l].ino IN
                \/ ino \in DOMAIN ino_to_file_map
                \/ InList(ino, deallocated_ino)

\* construction completed with a directory that links an ino for which no
\* FILE_UPDATE and no FILE_REMOVE was ever applied
C12_LinkedInoUnknown ==
    /\ pc = "done"
    /\ \E d \in 1..Len(dirlist) :
          \E l \in 1..Len(dirlist[d].ino_to_file_map) :
              LET ino == dirlist[d].ino_to_file_map[l].ino IN
              /\ ino \notin DOMAIN ino_to_file_map
              /\ ~InList(ino, deallocated_ino)
              /\ ~InList(ino, allocated_ino)

\* C13: after any sequence of DIR_LINK and DIR_UNLINK operations no
\* directory maps two different inos to the same filename.
C13_FilenameUnique ==
    \A d \in 1..Len(dirlist) :
        LET m == dirlist[d].ino_to_file_map IN
        \A k \in 1..Len(m) : \A l \in 1..Len(m) :
            m[k].filename = m[l].filename => m[k].ino = m[l].ino

\* a directory links two inos under one filename
C13_FilenameTwice ==
    \E d \in 1..Len(dirlist) :
        LET m == dirlist[d].ino_to_file_map IN
        \E k \in 1..Len(m) : \E l \in 1..Len(m) :
            m[k].filename = m[l].filename /\ m[k].ino # m[l].ino

\* C14: while initialized is false no operation changes the allocator
\* regions, the directories, the ino-to-file map, the inode lists, the
\* extent lists or next_offset (INIT sets initialized and nothing else), and
\* an operation other than INIT decoded before INIT is not applied: its
\* block is given up.
C14_NothingBeforeInit ==
    [][~initialized =>
          /\ UNCHANGED <<allocated_areas, dirlist, ino_to_file_map,
                         allocated_ino, deallocated_ino, allocated_extents,
                         deallocated_extents, next_offset>>
          /\ \A o \in EveryKindOps :
                (/\ o.op \notin {"NONE", "INIT", "BAD_STRING"}
                 /\ DecodeOperation(o))
                => pc' = "block" /\ block' = block + 1]_vars

\* the first block was given up after one operation, before any INIT, and
\* replay has gone on to decode the next block
C14_RejectedBeforeInit ==
    /\ ~initialized
    /\ nops = 1
    /\ block = 1
    /\ transactions = {}
    /\ pc = "ops"

C16_LExtentsSortedDisjoint ==
    xpc = "rows" =>
        \A k \in 1..Len(lextents) : \A l \in 1..Len(lextents) :
            k < l => lextents[k].logical_offset + lextents[k].length
                        <= lextents[l].logical_offset

\* two rows have been decoded and an extent of the second row starts
\* before an extent of the first row
C16_ShardRowStartsOver ==
    /\ xpc = "rows"
    /\ rows = 2
    /\ \E k \in 1..Len(lextents) : \E l \in 1..Len(lextents) :
          k < l /\ lextents[l].logical_offset < lextents[k].logical_offset

\* the positions of the lines of key k in the dump read so far
C17_LinesOf(k) == {i \in 1..Len(dump) : dump[i].match /\ dump[i].k = k}

\* C17: in every order of the lines of a dump, the row retained for a key
\* whose lines carry pairwise distinct sequence numbers is the row of the
\* line with the highest sequence number, and a key without a line has no
\* row.
C17_HighestSeqRetained ==
    \A k \in DumpKeys :
        LET ls == C17_LinesOf(k) IN
        /\ (ls = {}) <=> (k \notin DOMAIN datasets)
        /\ (ls # {} /\ \A i \in ls : \A j \in ls :
                          i # j => dump[i].seq # dump[j].seq)
              => \E i \in ls :
                    /\ \A j \in ls : dump[j].seq <= dump[i].seq
                    /\ datasets[k] = [v |-> dump[i].v, seq |-> dump[i].seq,
                                      t |-> dump[i].t]

\* a line of a key was read after a line of the same key with a higher
\* sequence number and another value, and the earlier row is retained
C17_LaterLowerSeqDropped ==
    \E i \in 1..Len(dump) : \E j \in 1..Len(dump) :
        /\ i < j /\ dump[i].match /\ dump[j].match
        /\ dump[i].k = dump[j].k
        /\ dump[i].seq > dump[j].seq
        /\ dump[i].v # dump[j].v
        /\ datasets[dump[i].k].v = dump[i].v

\* C18: once the with statement over the OSD has been left, by the end of
\* its body or by an exception of its body, with or without the KV store,
\* the handle of the image file is closed.
C18_HandleClosedOnExit ==
    dpc \in {"left", "propagated"} => rb = "closed"

\* the with statement of an OSD opened without the KV store has been left
\* normally and the handle is still open
C18_HandleLeftOpen ==
    /\ dpc = "left"
    /\ extract_dir = "None"
    /\ rb = "open"

\* C19: once the analyzer has stopped using the image, by leaving the with
\* statement or by an exception of the OSD constructor, the temporary
\* directory does not exist.
C19_TempDirRemoved ==
    dpc \in {"left", "propagated", "raised"} => ~tmpdir

\* the constructor has raised after the temporary directory was made, and
\* the directory is still on disk
C19_TempDirLeftByConstructor ==
    /\ dpc = "raised"
    /\ extract_dir = "tmp"
    /\ tmpdir

\* C20: with either cursor, a read of n bytes returns n bytes or fails.
C20_NoShortRead ==
    /\ osd_read # <<>> => Len(osd_read.r) = osd_read.length
    /\ bh_read # <<>> =>
          bh_read.raised \/ Len(bh_read.r) = bh_read.length

\* a read of the image past its end has returned fewer bytes than asked
\* for, and the body of the with statement goes on
C20_ShortReadReturned ==
    /\ dpc = "body"
    /\ osd_read # <<>>
    /\ rb_pos = ImageSize
    /\ Len(osd_read.r) < osd_read.length

\* the number of bytes after the word up to and including the first one
\* whose high bit is clear; 0 when every byte after the word has it set
C21_Extensions ==
    LET firstclear == {n \in 1..(Len(mybytes) - 4) :
                          /\ mybytes[4 + n] < 128
                          /\ \A m \in 1..(n - 1) : mybytes[4 + m] >= 128}
    IN  IF firstclear = {} THEN 0 ELSE CHOOSE n \in firstclear : TRUE

\* C21: an LBA whose word has the high bit of its top byte set consumes the
\* bytes after the word up to and including the first one whose high bit is
\* clear; its length is 4 plus their number and its value is the value of
\* the word with the low 7 bits of the k-th of them at shift s + 7k.
C21_LBAConsumesExtensions ==
    (/\ dpc = "CephLBA" /\ decoded # <<>>
     /\ 31 \in Word32(mybytes, 0)
     /\ C21_Extensions > 0)
        => LET base == LBABase(Word32(mybytes, 0)) IN
           /\ ~decoded.raised
           /\ decoded.length = 4 + C21_Extensions
           /\ bh_p = 4 + C21_Extensions
           /\ decoded.value =
                 base.v \cup UNION {Shl(BitsOf(mybytes[5 + k]) \cap 0..6,
                                        base.shift + 7 * k) :
                                       k \in 0..(C21_Extensions - 1)}

\* an LBA was decoded whose first extension byte has its high bit set and
\* is followed by a byte with the high bit clear, and only one extension
\* byte was consumed
C21_OneExtensionConsumed ==
    /\ dpc = "CephLBA" /\ decoded # <<>>
    /\ 31 \in Word32(mybytes, 0)
    /\ Len(mybytes) >= 6
    /\ mybytes[5] >= 128 /\ mybytes[6] < 128
    /\ ~decoded.raised
    /\ decoded.length = 5
    /\ bh_p = 5

\* the positions of the terminators "!" in the input
C22_Terminators == {i \in 1..Len(mybytes) : mybytes[i] = 33}
\* the position of the first terminator
C22_End == CHOOSE i \in C22_Terminators : \A j \in C22_Terminators : i <= j

RECURSIVE C22_Utf8(_)
\* the UTF-8 encoding of a string of code points below 0x800
C22_Utf8(value) ==
    IF value = <<>> THEN <<>>
    ELSE LET c == Head(value) IN
         (IF c < 128 THEN <<c>>
          ELSE <<192 + (c \div 64), 128 + (c % 64)>>)
             \o C22_Utf8(Tail(value))

\* C22: for an input of bytes other than "!", "#" and "~" followed by "!",
\* the escaped-string decoder returns the string these bytes encode and
\* leaves the cursor just after the "!".
C22_VerbatimString ==
    (/\ dpc = "CephEscapedString" /\ decoded # <<>>
     /\ C22_Terminators # {}
     /\ \A i \in 1..(C22_End - 1) : mybytes[i] \notin {35, 126})
        => /\ ~decoded.raised
           /\ bh_p = C22_End
           /\ C22_Utf8(decoded.value) = SubSeq(mybytes, 1, C22_End - 1)

\* the input is the UTF-8 encoding of U+00E9 followed by "!", and the
\* decoder has raised
C22_MultiByteRaises ==
    /\ dpc = "CephEscapedString" /\ decoded # <<>>
    /\ mybytes = <<195, 169, 33>>
    /\ decoded.raised

\* the window offsets below osdlength - blength
C23_Windows ==
    {k * WindowBytes : k \in 0..MaxWindows} \cap
        {o \in 0..(MaxWindows * WindowBytes) : o < osdlength - WindowBytes}

\* C23: when the scan has ended, the decoders were tried at every window
\* offset below osdlength - blength that does not lie inside a structure
\* decoded successfully.
C23_EveryWindowAttempted ==
    dpc = "scanned" =>
        \A o \in C23_Windows :
            \/ o \in attempted
            \/ \E st \in structures : st.pos < o /\ o < st.end

\* the scan has ended without a structure found and with a window offset
\* below osdlength - blength at which no decoder was tried
C23_WindowNeverAttempted ==
    /\ dpc = "scanned"
    /\ structures = {}
    /\ \E o \in C23_Windows : o \notin attempted

\* C24: the file extract_unallocated has written for an unallocated area
\* (off, len) holds the image bytes [off, off + len).
C24_FileHoldsArea ==
    apc = "extracted" =>
        \A i \in 1..Len(pe_unalloc) :
            /\ pe_unalloc[i][1] \in DOMAIN files
            /\ files[pe_unalloc[i][1]] =
                  ReadImage(pe_unalloc[i][1], pe_unalloc[i][2])

\* two unallocated areas were extracted with the cursor at the first of
\* them, and the file of the second area starts with the image byte that
\* follows the first area
C24_SecondFileFromCursor ==
    /\ apc = "extracted"
    /\ Len(pe_unalloc) = 2
    /\ pe_unalloc[1][1] = ReservedBytes
    /\ files[pe_unalloc[1][1]] =
          ReadImage(pe_unalloc[1][1], pe_unalloc[1][2])
    /\ pe_unalloc[2][2] > 0
    /\ files[pe_unalloc[2][1]] # <<>>
    /\ files[pe_unalloc[2][1]][1] =
          ImageByte(pe_unalloc[1][1] + pe_unalloc[1][2])

\* the areas of a list as sets of byte addresses
C30_Bytes(area) == {a \in 0..(2 * MaxOsdLength + MaxPELength) :
                       area[1] <= a /\ a < area[1] + area[2]}
C30_Sorted(list) ==
    \A i \in 1..Len(list) : \A j \in 1..Len(list) :
        i < j => list[i][1] <= list[j][1]

\* C30: once _init_alloc_state has assigned the lists, each list is sorted
\* by offset, the areas of both lists are pairwise disjoint, together they
\* cover [0, osdlength) exactly, and the reserved bytes are allocated.
C30_AreasPartitionDevice ==
    pe_alloc # <<>> =>
        LET all == pe_alloc \o pe_unalloc IN
        /\ C30_Sorted(pe_alloc)
        /\ C30_Sorted(pe_unalloc)
        /\ \A i \in 1..Len(all) : \A j \in 1..Len(all) :
              i # j => C30_Bytes(all[i]) \cap C30_Bytes(all[j]) = {}
        /\ UNION {C30_Bytes(all[i]) : i \in 1..Len(all)}
              = 0..(osdlength - 1)
        /\ \E i \in 1..Len(pe_alloc) :
              0..(ReservedBytes - 1) \subseteq C30_Bytes(pe_alloc[i])

\* the lists were derived from two recorded extents that were not recorded
\* in the order of their offsets, with a gap before each of them
C30_TwoGaps ==
    /\ pe_alloc # <<>>
    /\ Len(pextentlist) = 2
    /\ pextentlist[1].offset > pextentlist[2].offset
    /\ Len(pe_alloc) = 3
    /\ Len(pe_unalloc) >= 2

\* C25: once the replay loop has ended with the log file (ino 1) still in
\* the ino map, every block of every extent of the log file was handed to
\* read_bluefs_transaction: it is a block of an extent the loop has read
\* (oldextents holds the extents read, with the lengths they were read
\* with).
C25_LogBlocksAllDecoded ==
    (pc \in {"validate", "done", "failed"} /\ 1 \in DOMAIN ino_to_file_map)
        => BlocksOfList(ino_to_file_map[1].extents)
               \subseteq BlocksOfList(oldextents)

\* the replay has ended, the log file has an extent that starts where an
\* extent already read starts but is longer, and a block it added was never
\* read
C25_GrownExtentUnread ==
    /\ pc = "done"
    /\ 1 \in DOMAIN ino_to_file_map
    /\ \E i \in 1..Len(ino_to_file_map[1].extents) :
          \E j \in 1..Len(oldextents) :
             LET e == ino_to_file_map[1].extents[i] IN
             /\ e.offset = oldextents[j].offset
             /\ e.length > oldextents[j].length
             /\ BlocksOf(e) \ BlocksOfList(oldextents) # {}

\* C26: next_offset leaves 0 only by a JUMP applied in a block that is
\* decoded normally; while it is not 0 no operation changes it, every block
\* whose logical_offset is below it is decoded as skipped, and the first
\* block whose logical_offset is not below it is decoded normally after
\* next_offset was set to 0.
C26_JumpSkipsUpToTarget ==
    [][/\ (next_offset = 0 /\ next_offset' # 0)
             => (pc = "ops" /\ ~skip /\ initialized
                 /\ next_offset' \in JumpTargets)
       /\ (next_offset # 0 /\ next_offset' # next_offset)
             => (/\ pc = "block"
                 /\ logical_offset >= next_offset
                 /\ next_offset' = 0)
       /\ (pc = "block" /\ pc' = "ops")
             => IF next_offset > logical_offset
                THEN skip' /\ next_offset' = next_offset
                ELSE ~skip' /\ next_offset' = 0
       /\ (pc = "ops" /\ pc' = "ops") => skip' = skip]_vars

\* a block at or after the target of a jump is being decoded normally with
\* next_offset cleared, after a block below the target was filed as skipped
C26_DecodedAfterSkippedBlock ==
    /\ pc = "ops"
    /\ ~skip
    /\ next_offset = 0
    /\ logical_offset >= 2 * BlockSize
    /\ skipped_transactions # {}
    /\ transactions # {}

\* C27: a pass of the loop of extract over the logical extent le puts the
\* first le.length bytes of its blob at le.logical_offset of the object
\* file and into the digest, and the rest of the blob into the slack file,
\* whatever le.blob_offset is.
C27_BodyIsBlobStart ==
    [][(xpc = "loop" /\ le_i' = le_i + 1) =>
          LET le == lextents[le_i]
              n == IF le.length < le.blob THEN le.length ELSE le.blob
              body == [j \in 1..n |-> BlobByte(le_i, j)]
              rest == [j \in 1..(le.blob - n) |-> BlobByte(le_i, n + j)]
          IN  /\ md5sum' = md5sum \o body
              /\ s_file' = s_file \o rest
              /\ \A j \in 1..n : w_file'[le.logical_offset + j] = body[j]]_vars

\* a logical extent with a blob_offset other than 0 and a blob longer than
\* the extent has been extracted
C27_BlobOffsetIgnored ==
    /\ xpc = "loop"
    /\ le_i = 2
    /\ lextents[1].blob_offset > 0
    /\ lextents[1].blob > lextents[1].length
    /\ md5sum = <<BlobByte(1, 1)>>
    /\ s_file # <<>>

\* the first block of the log has been given up on a caught exception: the
\* loop is past it and no transaction was filed for it
C28_FirstBlockFailed ==
    /\ pc = "block"
    /\ logical_offset = BlockSize
    /\ transactions = {}
    /\ skipped_transactions = {}

\* C28: a block whose decoding ended in a magic or assertion failure has
\* left the BlueFS state as it was before the block; for the first block
\* of the log that is the state the constructor starts the replay with.
C28_FailedBlockKeepsNothing ==
    C28_FirstBlockFailed =>
        /\ ~initialized
        /\ allocated_areas = <<>>
        /\ allocated_ino = <<>>
        /\ deallocated_ino = <<>>
        /\ dirlist = <<>>
        /\ allocated_extents = <<>>
        /\ deallocated_extents = <<>>
        /\ DOMAIN ino_to_file_map = {1}
        /\ ino_to_file_map[1].extents = oldextents
        /\ next_offset = 0

\* the first block was given up at a FILE_REMOVE of an ino without a file,
\* and the INIT before it and the inode lists the FILE_REMOVE had already
\* changed are kept
C28_EffectsKeptAfterFailure ==
    /\ C28_FirstBlockFailed
    /\ initialized
    /\ deallocated_ino # <<>>
    /\ DOMAIN ino_to_file_map = {1}

\* C29: when the rows of prefix O have been loaded in key order, every
\* object that has an onode row with a value is mapped to the onode parsed
\* from that row, whatever the values of its shard rows
C29_OnodeRow(key) == [key |-> key, shard |-> 0]

C29_HasOnodeRow(key) ==
    /\ C29_OnodeRow(key) \in DOMAIN o_datasets
    /\ o_datasets[C29_OnodeRow(key)] # 0

C29_OnodeKeptAfterShardRows ==
    lpc = "done" =>
        \A key \in 1..MaxObjectKeys :
            C29_HasOnodeRow(key) =>
                /\ key \in DOMAIN h_onode_map
                /\ h_onode_map[key] = "onode"
                /\ onodes[key].oid = o_datasets[C29_OnodeRow(key)]

\* an empty shard row has replaced the onode of its object by None
C29_EmptyShardRowReplacedOnode ==
    /\ lpc = "done"
    /\ \E key \in 1..MaxObjectKeys :
          /\ C29_HasOnodeRow(key)
          /\ \E n \in 1..MaxShardRows :
                /\ [key |-> key, shard |-> n] \in DOMAIN o_datasets
                /\ o_datasets[[key |-> key, shard |-> n]] = 0
          /\ h_onode_map[key] = "None"
          /\ onodes[key].oid = o_datasets[C29_OnodeRow(key)]

====
